---- MODULE Spec2Model ----
(***************************************************************************)
(* A model of django-template-ast: the Lexer (src/src/lexer.rs), the Token *)
(* model (src/src/token.rs), the Parser (src/src/parser.rs) and the Node   *)
(* constructors (src/src/ast.rs), driven as compile does (src/src/lib.rs). *)
(*                                                                         *)
(* A character is a one-element string; a Rust String is the sequence of   *)
(* its characters.  Byte offsets and character indices are kept apart,     *)
(* because the Lexer's cursor is a byte offset (String::len, slicing)      *)
(* while Token::size and chars().nth() count characters.                   *)
(***************************************************************************)
EXTENDS Integers, Sequences, FiniteSets, TLC

VARIABLES
    source,     \* Lexer.source
    start,      \* Lexer.start
    current,    \* Lexer.current (a byte offset)
    line,       \* Lexer.line
    tokens,     \* the TokenStream built by Lexer::tokenize
    starts,     \* history: the value of Lexer.current when tokens[i] was scanned
    lstatus,    \* where Lexer::tokenize is: "scanning", "ok", "err", "panic"
    lerr,       \* the LexerError returned, or NoError
    ptokens,    \* Parser.tokens
    pcurrent,   \* Parser.current
    ast,        \* the Ast being built by Parser::parse (its nodes)
    pstatus,    \* where Parser::parse is: "idle", "parsing", "ok", "err"
    perr,       \* the ParserError returned, or NoError
    spans,      \* history: one record per next_node call that returned Ok
    prod,       \* history: what the production run by the last next_node call returned
    built       \* the last call made directly, of a Node constructor or of a method
                \* of the Lexer or the Parser, with its result

lexvars == <<source, start, current, line, tokens, starts, lstatus, lerr>>
parvars == <<ptokens, pcurrent, ast, pstatus, perr, spans, prod>>
vars == <<source, start, current, line, tokens, starts, lstatus, lerr,
          ptokens, pcurrent, ast, pstatus, perr, spans, prod, built>>

----------------------------------------------------------------------------
(* Characters *)

NUL == "NUL"        \* '\0'
LF == "\n"
CR == "\r"
TAB == "\t"
SP == " "
DQ == "\""
SQ == "'"
EAcute == "U+00E9"  \* a letter whose UTF-8 encoding takes two bytes
NBSP == "U+00A0"    \* a White_Space character whose UTF-8 encoding takes two bytes

PANIC == "PANIC"    \* the outcome of a Rust panic (unwrap on None, slicing off a char boundary)
NoError == [kind |-> "None"]

\* Option
Some(x) == [some |-> TRUE, val |-> x]
None == [some |-> FALSE]

\* char::len_utf8, for the characters of the model
len_utf8(c) == IF c \in {EAcute, NBSP} THEN 2 ELSE 1

\* char::is_whitespace, for the characters of the model
is_whitespace(c) == c \in {SP, TAB, LF, CR, NBSP}

AsciiLetters ==
    {"a", "b", "c", "d", "e", "f", "g", "h", "i", "j", "k", "l", "m",
     "n", "o", "p", "q", "r", "s", "t", "u", "v", "w", "x", "y", "z",
     "A", "B", "C", "D", "E", "F", "G", "H", "I", "J", "K", "L", "M",
     "N", "O", "P", "Q", "R", "S", "T", "U", "V", "W", "X", "Y", "Z"}

\* char::is_alphabetic, for the characters of the model
is_alphabetic(c) == c \in AsciiLetters \cup {EAcute}

Min(a, b) == IF a <= b THEN a ELSE b

\* str::len: the length in bytes
RECURSIVE ByteLen(_)
ByteLen(s) == IF s = <<>> THEN 0 ELSE len_utf8(Head(s)) + ByteLen(Tail(s))

\* The number of characters before byte offset k, or -1 when k is not a
\* character boundary of s (or lies past its end).
CharIndexAt(s, k) ==
    LET I == {i \in 0..Len(s) : ByteLen(SubSeq(s, 1, i)) = k}
    IN  IF I = {} THEN -1 ELSE CHOOSE i \in I : TRUE

----------------------------------------------------------------------------
(* Token model: src/src/token.rs *)

OneByteTypes ==
    {"LeftAngle", "RightAngle", "Comma", "Dot", "Dash", "Plus", "Colon", "Slash",
     "Bang", "Equal", "Pipe", "Percent", "SingleQuote", "DoubleQuote"}

TwoByteTypes ==
    {"DoubleLeftBrace", "DoubleRightBrace", "LeftBracePercent", "PercentRightBrace",
     "LeftBraceHash", "HashRightBrace", "BangEqual", "DoubleEqual", "LeftAngleEqual",
     "RightAngleEqual", "SlashRightAngle", "DoubleSlash", "SlashStar", "StarSlash"}

TokenTypes ==
    OneByteTypes \cup TwoByteTypes
        \cup {"LeftAngleBangDashDash", "DashDashRightAngle", "Whitespace", "Text", "Eof"}

\* TOKEN_BOUNDARIES of TokenType::size
TOKEN_BOUNDARIES ==
    {"(", ")", "[", "]", "{", "}", ",", ".", "-", "+", ":", ";", "*", "|", "%", "#",
     "!", "=", "<", ">", "/", SP, CR, TAB, LF, DQ, SQ}

\* The Whitespace arm of TokenType::size: the bytes of the leading run of
\* whitespace characters
RECURSIVE WhitespaceSize(_)
WhitespaceSize(s) ==
    IF s # <<>> /\ is_whitespace(Head(s))
    THEN len_utf8(Head(s)) + WhitespaceSize(Tail(s))
    ELSE 0

\* The Text arm of TokenType::size: the number of characters before the first
\* character of TOKEN_BOUNDARIES
RECURSIVE TextSize(_)
TextSize(s) ==
    IF s # <<>> /\ Head(s) \notin TOKEN_BOUNDARIES
    THEN 1 + TextSize(Tail(s))
    ELSE 0

\* TokenType::size(s), s an Option: the size of Ok(size), or PANIC where the
\* Whitespace or Text arm is given None (expect "must provide source to get
\* size").  It never answers Err.
TokenType_size(t, s) ==
    CASE t = "Eof" -> 0
      [] t \in OneByteTypes -> 1
      [] t \in TwoByteTypes -> 2
      [] t = "DashDashRightAngle" -> 3
      [] t = "LeftAngleBangDashDash" -> 4
      [] t = "Whitespace" -> IF s.some THEN WhitespaceSize(s.val) ELSE PANIC
      [] t = "Text" -> IF s.some THEN TextSize(s.val) ELSE PANIC

\* Token::new
Token_new(t, lexeme, ln) == [token_type |-> t, lexeme |-> lexeme, line |-> ln]

\* Token::eof stamping line 1 whatever line it is given
Token_eof_LineOne(ln) == [token_type |-> "Eof", lexeme |-> <<>>, line |-> 1]

\* Token::eof
Token_eof(ln) == [token_type |-> "Eof", lexeme |-> <<>>, line |-> ln]

\* Token::size: the number of characters of the lexeme
Token_size(tok) == Len(tok.lexeme)

\* Token::lines: the number of '\n' and '\r' characters of a Whitespace lexeme
Token_lines(tok) ==
    IF tok.token_type = "Whitespace"
    THEN Cardinality({i \in 1..Len(tok.lexeme) : tok.lexeme[i] \in {LF, CR}})
    ELSE 0

\* TokenStream::add_token
add_token(ts, tok) == Append(ts, tok)

\* TokenStream::finalize returning the stream without the Eof token
finalize_NoEof(ts, last_line) == ts

\* TokenStream::finalize
finalize(ts, last_line) == add_token(ts, Token_eof(last_line))

----------------------------------------------------------------------------
(* Lexer: src/src/lexer.rs *)

\* Lexer::is_at_end
Lexer_is_at_end(src, cur) == cur >= ByteLen(src)

\* Lexer::item_at answering the last character of the source for an index past the end
Lexer_item_at_Clamped(src, index) ==
    IF src = <<>> THEN NUL
    ELSE IF index < 0 \/ index >= Len(src) THEN src[Len(src)]
    ELSE src[index + 1]

\* Lexer::item_at.  The bound is the byte length, the lookup is by character
\* index: an index inside the bytes but past the last character unwraps None.
Lexer_item_at(src, index) ==
    IF index < 0 \/ index >= ByteLen(src) THEN NUL
    ELSE IF index < Len(src) THEN src[index + 1]
    ELSE PANIC

\* Lexer::peek_at; a negative index wraps to a huge usize, which item_at answers with NUL
Lexer_peek_at(src, cur, offset) == Lexer_item_at(src, cur + offset)

\* Lexer::peek
Lexer_peek(src, cur) == Lexer_peek_at(src, cur, 0)

\* Lexer::peek_next
Lexer_peek_next(src, cur) == Lexer_peek_at(src, cur, 1)

\* Lexer::advance leaving start as it was
Lexer_advance_KeepStart(src, st, cur, ln, chars, lines) ==
    IF Lexer_is_at_end(src, cur)
    THEN [ok |-> FALSE, err |-> [kind |-> "AtEndOfSource"],
          start |-> st, current |-> cur, line |-> ln]
    ELSE [ok |-> TRUE, start |-> st, current |-> cur + chars, line |-> ln + lines]

\* Lexer::advance: the Result, and start, current and line as it leaves them
Lexer_advance(src, st, cur, ln, chars, lines) ==
    IF Lexer_is_at_end(src, cur)
    THEN [ok |-> FALSE, err |-> [kind |-> "AtEndOfSource"],
          start |-> st, current |-> cur, line |-> ln]
    ELSE [ok |-> TRUE, start |-> cur, current |-> cur + chars, line |-> ln + lines]

\* Lexer::single_char
single_char(c) ==
    CASE c = "," -> "Comma"
      [] c = "." -> "Dot"
      [] c = "+" -> "Plus"
      [] c = ":" -> "Colon"
      [] c = "|" -> "Pipe"
      [] c = SQ -> "SingleQuote"
      [] c = DQ -> "DoubleQuote"
      [] c = "/" -> "Slash"
      [] c = "%" -> "Percent"
      [] OTHER -> "UnexpectedCharacter"

\* Lexer::text
text == "Text"

\* Lexer::whitespace
whitespace == "Whitespace"

\* Lexer::left_brace
left_brace(src, cur) ==
    LET n == Lexer_peek_next(src, cur)
    IN  CASE n = PANIC -> PANIC
          [] n = "{" -> "DoubleLeftBrace"
          [] n = "%" -> "LeftBracePercent"
          [] n = "#" -> "LeftBraceHash"
          [] OTHER -> text

\* Lexer::right_brace
right_brace(src, cur) ==
    LET n == Lexer_peek_next(src, cur)
    IN  CASE n = PANIC -> PANIC
          [] n = "}" -> "DoubleRightBrace"
          [] OTHER -> text

\* Lexer::percent
percent(src, cur) ==
    LET n == Lexer_peek_next(src, cur)
    IN  CASE n = PANIC -> PANIC
          [] n = "}" -> "PercentRightBrace"
          [] OTHER -> "Percent"

\* Lexer::hash
hash(src, cur) ==
    LET n == Lexer_peek_next(src, cur)
    IN  CASE n = PANIC -> PANIC
          [] n = "}" -> "HashRightBrace"
          [] OTHER -> text

\* Lexer::bang answering the compound kind whatever follows
bang_AlwaysBangEqual(src, cur) == "BangEqual"

\* Lexer::bang
bang(src, cur) ==
    LET n == Lexer_peek_next(src, cur)
    IN  CASE n = PANIC -> PANIC
          [] n = "=" -> "BangEqual"
          [] OTHER -> "Bang"

\* Lexer::equal
equal(src, cur) ==
    LET n == Lexer_peek_next(src, cur)
    IN  CASE n = PANIC -> PANIC
          [] n = "=" -> "DoubleEqual"
          [] OTHER -> "Equal"

\* Lexer::left_angle.  The three peeks are evaluated before the match.
left_angle(src, cur) ==
    LET c1 == Lexer_peek_next(src, cur)
        c2 == Lexer_peek_at(src, cur, 2)
        c3 == Lexer_peek_at(src, cur, 3)
    IN  CASE PANIC \in {c1, c2, c3} -> PANIC
          [] c1 = "=" -> "LeftAngleEqual"
          [] c1 = "!" /\ c2 = "-" /\ c3 = "-" -> "LeftAngleBangDashDash"
          [] is_whitespace(c1) \/ is_alphabetic(c1) \/ c1 = NUL -> "LeftAngle"
          [] OTHER -> text

\* Lexer::right_angle
right_angle(src, cur) ==
    LET n == Lexer_peek_next(src, cur)
    IN  CASE n = PANIC -> PANIC
          [] n = "=" -> "RightAngleEqual"
          [] OTHER -> "RightAngle"

\* Lexer::slash
slash(src, cur) ==
    LET n == Lexer_peek_next(src, cur)
    IN  CASE n = PANIC -> PANIC
          [] n = ">" -> "SlashRightAngle"
          [] n = "/" -> "DoubleSlash"
          [] n = "*" -> "SlashStar"
          [] OTHER -> "Slash"

\* Lexer::dash.  Both peeks are evaluated before the match.
dash(src, cur) ==
    LET c1 == Lexer_peek_next(src, cur)
        c2 == Lexer_peek_at(src, cur, 2)
    IN  CASE PANIC \in {c1, c2} -> PANIC
          [] c1 = "-" /\ c2 = ">" -> "DashDashRightAngle"
          [] c1 = "-" -> text
          [] OTHER -> "Dash"

\* Lexer::star
star(src, cur) ==
    LET n == Lexer_peek_next(src, cur)
    IN  CASE n = PANIC -> PANIC
          [] n = "/" -> "StarSlash"
          [] OTHER -> text

\* The match of Lexer::next_token on the character at the cursor: a token
\* type, PANIC, or "UnexpectedCharacter".
dispatch(src, cur) ==
    LET c == Lexer_peek(src, cur)
    IN  CASE c = PANIC -> PANIC
          [] c \in {",", ".", "+", ":", "|", SQ, DQ} -> single_char(c)
          [] c = "{" -> left_brace(src, cur)
          [] c = "}" -> right_brace(src, cur)
          [] c = "%" -> percent(src, cur)
          [] c = "#" -> hash(src, cur)
          [] c = "!" -> bang(src, cur)
          [] c = "=" -> equal(src, cur)
          [] c = "<" -> left_angle(src, cur)
          [] c = ">" -> right_angle(src, cur)
          [] c = "/" -> slash(src, cur)
          [] c = "-" -> dash(src, cur)
          [] c = "*" -> star(src, cur)
          [] is_whitespace(c) -> whitespace
          [] OTHER -> text

\* The offsets from the cursor that next_token reads through peek, peek_next
\* and peek_at when the character at the cursor is c
PeekOffsets(c) ==
    CASE c = "<" -> {0, 1, 2, 3}
      [] c = "-" -> {0, 1, 2}
      [] c \in {"{", "}", "%", "#", "!", "=", ">", "/", "*"} -> {0, 1}
      [] OTHER -> {0}

\* chars().take_while(|c| c.is_whitespace() && c != '\0')
RECURSIVE TakeWhitespace(_)
TakeWhitespace(s) ==
    IF s # <<>> /\ is_whitespace(Head(s)) /\ Head(s) # NUL
    THEN <<Head(s)>> \o TakeWhitespace(Tail(s))
    ELSE <<>>

\* chars().take_while(|c| !c.is_whitespace() && c != '\0')
RECURSIVE TakeText(_)
TakeText(s) ==
    IF s # <<>> /\ ~is_whitespace(Head(s)) /\ Head(s) # NUL
    THEN <<Head(s)>> \o TakeText(Tail(s))
    ELSE <<>>

\* Lexer::extract_lexeme: [outcome |-> "ok", lexeme], or [outcome |-> "panic"]
\* when a slice does not fall on a character boundary.  The call
\* `token_type.size()` of lexer.rs 186 passes no source, and token.rs defines
\* no size without that parameter: as the arms after it and test_extract_lexeme
\* have it, the call answers Ok for the kinds of fixed size, which need no
\* source, and the Whitespace and Text arms of extract_lexeme measure the run
\* themselves.  The arm of UnexpectedTokenType is left to no kind.
extract_lexeme(src, cur, t) ==
    LET i == CharIndexAt(src, cur)
    IN  IF i = -1 THEN [outcome |-> "panic"]
        ELSE LET remaining_source == SubSeq(src, i + 1, Len(src))
                 size == IF t = "Whitespace" THEN ByteLen(TakeWhitespace(remaining_source))
                         ELSE IF t = "Text" THEN ByteLen(TakeText(remaining_source))
                         ELSE TokenType_size(t, None)
                 end == Min(size, ByteLen(remaining_source))
                 j == CharIndexAt(remaining_source, end)
             IN  IF j = -1 THEN [outcome |-> "panic"]
                 ELSE [outcome |-> "ok", lexeme |-> SubSeq(remaining_source, 1, j)]

\* Lexer::next_token up to the token it builds:
\* [outcome |-> "ok", token], [outcome |-> "err", err] or [outcome |-> "panic"]
next_token(src, cur, ln) ==
    LET t == dispatch(src, cur)
    IN  IF t = PANIC THEN [outcome |-> "panic"]
        ELSE IF t = "UnexpectedCharacter"
        THEN [outcome |-> "err",
              err |-> [kind |-> "UnexpectedCharacter",
                       character |-> Lexer_peek(src, cur), line |-> ln]]
        ELSE LET l == extract_lexeme(src, cur, t)
             IN  IF l.outcome = "ok"
                 THEN [outcome |-> "ok", token |-> Token_new(t, l.lexeme, ln)]
                 ELSE l

----------------------------------------------------------------------------
(* Nodes: src/src/ast.rs *)

\* Option::unwrap_or_default for a Vec, with a list of one empty text node as the default
unwrap_or_default_Placeholder(o) ==
    IF o.some THEN o.val ELSE <<[kind |-> "Text", content |-> <<>>]>>

\* Option::unwrap_or_default for a Vec
unwrap_or_default(o) == IF o.some THEN o.val ELSE <<>>

Ok(v) == [ok |-> TRUE, val |-> v]
Err(e) == [ok |-> FALSE, err |-> e]

\* AttributeValue
Value(v) == [kind |-> "Value", value |-> v]
Boolean == [kind |-> "Boolean"]

\* Node::new_html_element without the check of the tag
new_html_element_NoCheck(tag, attributes, children) ==
    Ok([kind |-> "HTMLElement", tag |-> tag,
        attributes |-> unwrap_or_default(attributes),
        children |-> unwrap_or_default(children)])

\* Node::new_html_element
new_html_element(tag, attributes, children) ==
    IF tag = <<>> THEN Err([kind |-> "NodeError", error |-> "NoTagName"])
    ELSE Ok([kind |-> "HTMLElement", tag |-> tag,
             attributes |-> unwrap_or_default(attributes),
             children |-> unwrap_or_default(children)])

\* Node::new_html_void_element
new_html_void_element(tag, attributes) ==
    IF tag = <<>> THEN Err([kind |-> "NodeError", error |-> "NoTagName"])
    ELSE Ok([kind |-> "HTMLVoidElement", tag |-> tag,
             attributes |-> unwrap_or_default(attributes)])

\* Node::new_html_comment
new_html_comment(content) == Ok([kind |-> "HTMLComment", content |-> content])

\* Node::new_html_doctype
new_html_doctype(doctype) == Ok([kind |-> "HTMLDoctype", doctype |-> doctype])

\* Node::new_django_variable
new_django_variable(content) == Ok([kind |-> "DjangoVariable", content |-> content])

\* Node::new_django_block putting a default name in place of an empty one
new_django_block_DefaultName(name, arguments, children) ==
    Ok([kind |-> "DjangoBlock", name |-> IF name = <<>> THEN <<"b", "l", "o", "c", "k">> ELSE name,
        arguments |-> unwrap_or_default(arguments),
        children |-> unwrap_or_default(children)])

\* Node::new_django_block
new_django_block(name, arguments, children) ==
    IF name = <<>> THEN Err([kind |-> "NodeError", error |-> "NoBlockName"])
    ELSE Ok([kind |-> "DjangoBlock", name |-> name,
             arguments |-> unwrap_or_default(arguments),
             children |-> unwrap_or_default(children)])

\* Node::new_django_comment
new_django_comment(content) == Ok([kind |-> "DjangoComment", content |-> content])

\* Node::new_text
new_text(content) == Ok([kind |-> "Text", content |-> content])

\* Ast::add_node
add_node(nodes, node) == Append(nodes, node)

----------------------------------------------------------------------------
(* Rendering tokens as text.  parser.rs imports TokenVecToString from the   *)
(* token module and calls Token::to_string, but src/src/token.rs defines    *)
(* neither; both follow the specification: a token renders as its lexeme,   *)
(* a token list as its tokens' text joined by single spaces.                *)

Token_to_string(tok) == tok.lexeme

RECURSIVE TokenVec_to_string(_)
TokenVec_to_string(toks) ==
    IF toks = <<>> THEN <<>>
    ELSE IF Len(toks) = 1 THEN Token_to_string(toks[1])
    ELSE Token_to_string(toks[1]) \o <<SP>> \o TokenVec_to_string(Tail(toks))

----------------------------------------------------------------------------
(* Parser: src/src/parser.rs.  Every operation takes the token stream and   *)
(* the cursor and answers [ok, cur, val] or [ok, cur, err], cur being the   *)
(* cursor it leaves behind.                                                 *)

POk(c, v) == [ok |-> TRUE, cur |-> c, val |-> v]
PErr(c, e) == [ok |-> FALSE, cur |-> c, err |-> e]

ExpectedTokenType(found, expected) ==
    [kind |-> "ExpectedTokenType", found |-> found, expected |-> expected]
UnexpectedToken(found) == [kind |-> "UnexpectedToken", found |-> found]
AtEndOfStream == [kind |-> "AtEndOfStream"]

\* Parser::item_at; index is a usize, so a negative one has wrapped past every length
Parser_item_at(toks, cur, index) ==
    IF index >= 0 /\ index < Len(toks) THEN POk(cur, toks[index + 1])
    ELSE IF Len(toks) = 0 THEN PErr(cur, [kind |-> "EmptyTokenStream"])
    ELSE IF index >= 0 /\ index < cur THEN PErr(cur, [kind |-> "AtBeginningOfStream"])
    ELSE IF index < 0 \/ index >= Len(toks) THEN PErr(cur, AtEndOfStream)
    ELSE PErr(cur, [kind |-> "InvalidTokenAccess"])

\* Parser::peek_at
Parser_peek_at(toks, cur, offset) == Parser_item_at(toks, cur, cur + offset)

\* Parser::peek
Parser_peek(toks, cur) == Parser_peek_at(toks, cur, 0)

\* Parser::peek_next
Parser_peek_next(toks, cur) == Parser_peek_at(toks, cur, 1)

\* Parser::peek_previous
Parser_peek_previous(toks, cur) == Parser_peek_at(toks, cur, -1)

\* Parser::is_at_end answering only once the cursor is past the last token
Parser_is_at_end_PastLast(toks, cur) == cur >= Len(toks)

\* Parser::is_at_end
Parser_is_at_end(toks, cur) == cur + 1 >= Len(toks)

\* Parser::advance without the check of is_at_end
Parser_advance_NoEndCheck(toks, cur) == Parser_peek_previous(toks, cur + 1)

\* Parser::advance returning the token the cursor has come to
Parser_advance_ReturnsCurrent(toks, cur) ==
    IF Parser_is_at_end(toks, cur) THEN PErr(cur, AtEndOfStream)
    ELSE Parser_peek(toks, cur + 1)

\* Parser::advance
Parser_advance(toks, cur) ==
    IF Parser_is_at_end(toks, cur) THEN PErr(cur, AtEndOfStream)
    ELSE Parser_peek_previous(toks, cur + 1)

\* The `?` operator: the rest of the function runs on an Ok, an Err is returned as it is
Try(r, rest(_)) == IF r.ok THEN rest(r) ELSE r

\* Parser::consume answering UnexpectedToken on a token of another kind
consume_UnexpectedToken(toks, cur, token_type) ==
    Try(Parser_peek(toks, cur), LAMBDA token :
        IF token.val.token_type # token_type
        THEN PErr(cur, UnexpectedToken(token.val))
        ELSE Try(Parser_advance(toks, cur), LAMBDA a : POk(a.cur, token.val)))

\* Parser::consume
consume(toks, cur, token_type) ==
    Try(Parser_peek(toks, cur), LAMBDA token :
        IF token.val.token_type # token_type
        THEN PErr(cur, ExpectedTokenType(token.val, token_type))
        ELSE Try(Parser_advance(toks, cur), LAMBDA a : POk(a.cur, token.val)))

\* Parser::consume_until without the test of is_at_end
RECURSIVE consume_until_NoEndTest(_, _, _)
consume_until_NoEndTest(toks, cur, end_type) ==
    Try(Parser_peek(toks, cur), LAMBDA p :
        IF p.val.token_type = end_type THEN POk(cur, <<>>)
        ELSE Try(Parser_advance(toks, cur), LAMBDA token :
             Try(consume_until_NoEndTest(toks, token.cur, end_type), LAMBDA consumed :
                 POk(consumed.cur, <<token.val>> \o consumed.val))))

\* Parser::consume_until
RECURSIVE consume_until(_, _, _)
consume_until(toks, cur, end_type) ==
    IF Parser_is_at_end(toks, cur) THEN POk(cur, <<>>)
    ELSE Try(Parser_peek(toks, cur), LAMBDA p :
             IF p.val.token_type = end_type THEN POk(cur, <<>>)
             ELSE Try(Parser_advance(toks, cur), LAMBDA token :
                  Try(consume_until(toks, token.cur, end_type), LAMBDA consumed :
                      POk(consumed.cur, <<token.val>> \o consumed.val))))

\* The lexemes of a token list, concatenated: map(|t| t.lexeme).collect::<String>()
RECURSIVE ConcatLexemes(_)
ConcatLexemes(toks) ==
    IF toks = <<>> THEN <<>> ELSE toks[1].lexeme \o ConcatLexemes(Tail(toks))

\* Parser::parse_attribute_value taking any one token for an unquoted value
parse_attribute_value_AnyToken(toks, cur) ==
    Try(Parser_peek(toks, cur), LAMBDA p :
        IF p.val.token_type \in {"SingleQuote", "DoubleQuote"}
        THEN Try(Parser_advance(toks, cur), LAMBDA quote :
             Try(consume_until(toks, quote.cur, quote.val.token_type), LAMBDA value :
             Try(consume(toks, value.cur, quote.val.token_type), LAMBDA c :
                 POk(c.cur, ConcatLexemes(value.val)))))
        ELSE Try(Parser_advance(toks, cur), LAMBDA c : POk(c.cur, c.val.lexeme)))

\* Parser::parse_attribute_value
parse_attribute_value(toks, cur) ==
    Try(Parser_peek(toks, cur), LAMBDA p :
        IF p.val.token_type \in {"SingleQuote", "DoubleQuote"}
        THEN Try(Parser_advance(toks, cur), LAMBDA quote :
             Try(consume_until(toks, quote.cur, quote.val.token_type), LAMBDA value :
             Try(consume(toks, value.cur, quote.val.token_type), LAMBDA c :
                 POk(c.cur, ConcatLexemes(value.val)))))
        ELSE Try(consume(toks, cur, "Text"), LAMBDA c : POk(c.cur, c.val.lexeme)))

\* Parser::parse_attributes giving a name without `=` the empty string for its value
RECURSIVE parse_attributes_EmptyValue(_, _)
parse_attributes_EmptyValue(toks, cur) ==
    Try(Parser_peek(toks, cur), LAMBDA p :
        IF p.val.token_type # "Text" THEN POk(cur, <<>>)
        ELSE Try(consume(toks, cur, "Text"), LAMBDA name :
             Try(Parser_peek(toks, name.cur), LAMBDA q :
             Try(IF q.val.token_type = "Equal"
                 THEN Try(consume(toks, name.cur, "Equal"), LAMBDA eq :
                      Try(parse_attribute_value(toks, eq.cur), LAMBDA v :
                          POk(v.cur, Value(v.val))))
                 ELSE POk(name.cur, Value(<<>>)), LAMBDA value :
             Try(parse_attributes_EmptyValue(toks, value.cur), LAMBDA rest :
                 POk(rest.cur, <<<<name.val.lexeme, value.val>>>> \o rest.val))))))

\* Parser::parse_attributes
RECURSIVE parse_attributes(_, _)
parse_attributes(toks, cur) ==
    Try(Parser_peek(toks, cur), LAMBDA p :
        IF p.val.token_type # "Text" THEN POk(cur, <<>>)
        ELSE Try(consume(toks, cur, "Text"), LAMBDA name :
             Try(Parser_peek(toks, name.cur), LAMBDA q :
             Try(IF q.val.token_type = "Equal"
                 THEN Try(consume(toks, name.cur, "Equal"), LAMBDA eq :
                      Try(parse_attribute_value(toks, eq.cur), LAMBDA v :
                          POk(v.cur, Value(v.val))))
                 ELSE POk(name.cur, Boolean), LAMBDA value :
             Try(parse_attributes(toks, value.cur), LAMBDA rest :
                 POk(rest.cur, <<<<name.val.lexeme, value.val>>>> \o rest.val))))))

\* A NodeError from a constructor becomes ParserError::NodeError
FromNode(cur, r) == IF r.ok THEN POk(cur, r.val) ELSE PErr(cur, r.err)

\* Parser::html_tag building an HTMLElement for `/>` as for `>`
html_tag_AlwaysElement(toks, cur) ==
    Try(consume(toks, cur, "LeftAngle"), LAMBDA open :
    Try(consume(toks, open.cur, "Text"), LAMBDA tag :
    Try(parse_attributes(toks, tag.cur), LAMBDA attributes :
    Try(Parser_peek(toks, attributes.cur), LAMBDA p :
        IF p.val.token_type = "SlashRightAngle"
        THEN Try(consume(toks, attributes.cur, "SlashRightAngle"), LAMBDA c :
                 FromNode(c.cur, new_html_element(tag.val.lexeme, Some(attributes.val), None)))
        ELSE Try(consume(toks, attributes.cur, "RightAngle"), LAMBDA c :
                 FromNode(c.cur, new_html_element(tag.val.lexeme, Some(attributes.val), None)))))))

\* Parser::html_tag
html_tag(toks, cur) ==
    Try(consume(toks, cur, "LeftAngle"), LAMBDA open :
    Try(consume(toks, open.cur, "Text"), LAMBDA tag :
    Try(parse_attributes(toks, tag.cur), LAMBDA attributes :
    Try(Parser_peek(toks, attributes.cur), LAMBDA p :
        IF p.val.token_type = "SlashRightAngle"
        THEN Try(consume(toks, attributes.cur, "SlashRightAngle"), LAMBDA c :
                 FromNode(c.cur, new_html_void_element(tag.val.lexeme, Some(attributes.val))))
        ELSE Try(consume(toks, attributes.cur, "RightAngle"), LAMBDA c :
                 FromNode(c.cur, new_html_element(tag.val.lexeme, Some(attributes.val), None)))))))

\* Parser::html_comment with the closing delimiter taken into the body
html_comment_WithCloser(toks, cur) ==
    Try(consume(toks, cur, "LeftAngleBangDashDash"), LAMBDA open :
    Try(consume_until(toks, open.cur, "DashDashRightAngle"), LAMBDA content :
    Try(consume(toks, content.cur, "DashDashRightAngle"), LAMBDA c :
        FromNode(c.cur, new_html_comment(TokenVec_to_string(Append(content.val, c.val)))))))

\* Parser::html_comment
html_comment(toks, cur) ==
    Try(consume(toks, cur, "LeftAngleBangDashDash"), LAMBDA open :
    Try(consume_until(toks, open.cur, "DashDashRightAngle"), LAMBDA content :
    Try(FromNode(content.cur, new_html_comment(TokenVec_to_string(content.val))), LAMBDA node :
    Try(consume(toks, content.cur, "DashDashRightAngle"), LAMBDA c :
        POk(c.cur, node.val)))))

\* Parser::html_doctype keeping the keyword token in the text of the node
html_doctype_KeepKeyword(toks, cur) ==
    Try(consume(toks, cur, "LeftAngle"), LAMBDA open :
    Try(consume(toks, open.cur, "Bang"), LAMBDA b :
    Try(consume(toks, b.cur, "Text"), LAMBDA kw :
    Try(consume_until(toks, kw.cur, "RightAngle"), LAMBDA content :
    Try(FromNode(content.cur,
                 new_html_doctype(TokenVec_to_string(<<kw.val>> \o content.val))), LAMBDA node :
    Try(consume(toks, content.cur, "RightAngle"), LAMBDA c :
        POk(c.cur, node.val)))))))

\* Parser::html_doctype
html_doctype(toks, cur) ==
    Try(consume(toks, cur, "LeftAngle"), LAMBDA open :
    Try(consume(toks, open.cur, "Bang"), LAMBDA b :
    Try(consume(toks, b.cur, "Text"), LAMBDA kw :
    Try(consume_until(toks, kw.cur, "RightAngle"), LAMBDA content :
    Try(FromNode(content.cur, new_html_doctype(TokenVec_to_string(content.val))), LAMBDA node :
    Try(consume(toks, content.cur, "RightAngle"), LAMBDA c :
        POk(c.cur, node.val)))))))

\* content[1..].iter().map(|token| token.to_string()).collect()
TokenStrings(toks) == [i \in 1..Len(toks) |-> Token_to_string(toks[i])]

\* Parser::django_block taking content[0..] for the arguments, the name included
django_block_ArgsWithName(toks, cur) ==
    Try(consume(toks, cur, "LeftBracePercent"), LAMBDA open :
    Try(consume_until(toks, open.cur, "PercentRightBrace"), LAMBDA content :
    Try(consume(toks, content.cur, "PercentRightBrace"), LAMBDA c :
        IF content.val = <<>>
        THEN PErr(c.cur, [kind |-> "NodeError", error |-> "EmptyDjangoBlock"])
        ELSE FromNode(c.cur,
                 new_django_block(content.val[1].lexeme,
                                  IF Len(content.val) > 1
                                  THEN Some(TokenStrings(content.val))
                                  ELSE None,
                                  None)))))

\* Parser::django_block
django_block(toks, cur) ==
    Try(consume(toks, cur, "LeftBracePercent"), LAMBDA open :
    Try(consume_until(toks, open.cur, "PercentRightBrace"), LAMBDA content :
    Try(consume(toks, content.cur, "PercentRightBrace"), LAMBDA c :
        IF content.val = <<>>
        THEN PErr(c.cur, [kind |-> "NodeError", error |-> "EmptyDjangoBlock"])
        ELSE FromNode(c.cur,
                 new_django_block(content.val[1].lexeme,
                                  IF Len(content.val) > 1
                                  THEN Some(TokenStrings(Tail(content.val)))
                                  ELSE None,
                                  None)))))

\* Parser::django_variable
django_variable(toks, cur) ==
    Try(consume(toks, cur, "DoubleLeftBrace"), LAMBDA open :
    Try(consume_until(toks, open.cur, "DoubleRightBrace"), LAMBDA content :
    Try(FromNode(content.cur, new_django_variable(TokenVec_to_string(content.val))), LAMBDA node :
    Try(consume(toks, content.cur, "DoubleRightBrace"), LAMBDA c :
        POk(c.cur, node.val)))))

\* Parser::django_comment
django_comment(toks, cur) ==
    Try(consume(toks, cur, "LeftBraceHash"), LAMBDA open :
    Try(consume_until(toks, open.cur, "HashRightBrace"), LAMBDA content :
    Try(FromNode(content.cur, new_django_comment(TokenVec_to_string(content.val))), LAMBDA node :
    Try(consume(toks, content.cur, "HashRightBrace"), LAMBDA c :
        POk(c.cur, node.val)))))

\* Parser::text
Parser_text(toks, cur) ==
    Try(Parser_peek(toks, cur), LAMBDA token : FromNode(cur, new_text(token.val.lexeme)))

\* The match of Parser::next_node on the current token: the production's
\* result, with early set when a `?` leaves next_node before its trailing advance.
Early(r) == [early |-> TRUE, res |-> r]
Late(r) == [early |-> FALSE, res |-> r]

html_production(toks, cur, next) ==
    IF ~next.ok THEN Early(next)
    ELSE CASE next.val.token_type = "Bang" -> Late(html_doctype(toks, cur))
           [] next.val.token_type = "Text" -> Late(html_tag(toks, cur))
           [] OTHER -> Late(PErr(cur, UnexpectedToken(next.val)))

production_of(toks, cur, token) ==
    IF ~token.ok THEN Early(token)
    ELSE CASE token.val.token_type = "LeftAngle" ->
                    html_production(toks, cur, Parser_peek_next(toks, cur))
           [] token.val.token_type = "LeftAngleBangDashDash" -> Late(html_comment(toks, cur))
           [] token.val.token_type = "LeftBracePercent" -> Late(django_block(toks, cur))
           [] token.val.token_type = "DoubleLeftBrace" -> Late(django_variable(toks, cur))
           [] token.val.token_type = "LeftBraceHash" -> Late(django_comment(toks, cur))
           [] token.val.token_type = "Text" -> Late(Parser_text(toks, cur))
           [] token.val.token_type = "Eof" -> Late(PErr(cur, AtEndOfStream))
           [] OTHER -> Late(PErr(cur, UnexpectedToken(token.val)))

production(toks, cur) == production_of(toks, cur, Parser_peek(toks, cur))

\* The end of Parser::next_node without the advance: the production's result as it is
after_production_NoAdvance(toks, p) == p.res

\* The end of Parser::next_node advancing only past a production that failed
after_production_AdvanceOnError(toks, p) ==
    IF p.early \/ p.res.ok THEN p.res
    ELSE Try(Parser_advance(toks, p.res.cur), LAMBDA a : PErr(a.cur, p.res.err))

\* The end of Parser::next_node: self.advance()?, then the production's result
after_production(toks, p) ==
    IF p.early THEN p.res
    ELSE Try(Parser_advance(toks, p.res.cur), LAMBDA a :
             IF p.res.ok THEN POk(a.cur, p.res.val) ELSE PErr(a.cur, p.res.err))

\* Parser::next_node
next_node(toks, cur) == after_production(toks, production(toks, cur))

----------------------------------------------------------------------------
(* The sources the model scans *)

MaxPieces == 2      \* a bounded source is the concatenation of at most MaxPieces pieces
MaxLen == 4         \* or a string of at most MaxLen characters of CoreAlphabet
MaxTokens == 12     \* tokenize is followed for at most MaxTokens tokens

\* The multi-character delimiters and their token types
Delimiters ==
    { <<"{", "{">>, <<"{", "%">>, <<"{", "#">>, <<"}", "}">>, <<"%", "}">>, <<"#", "}">>,
      <<"!", "=">>, <<"=", "=">>, <<"<", "=">>, <<">", "=">>, <<"/", ">">>, <<"/", "/">>,
      <<"/", "*">>, <<"*", "/">>,
      <<"<", "!", "-", "-">>, <<"-", "-", ">">> }

DelimiterType(d) ==
    CASE d = <<"{", "{">> -> "DoubleLeftBrace"
      [] d = <<"{", "%">> -> "LeftBracePercent"
      [] d = <<"{", "#">> -> "LeftBraceHash"
      [] d = <<"}", "}">> -> "DoubleRightBrace"
      [] d = <<"%", "}">> -> "PercentRightBrace"
      [] d = <<"#", "}">> -> "HashRightBrace"
      [] d = <<"!", "=">> -> "BangEqual"
      [] d = <<"=", "=">> -> "DoubleEqual"
      [] d = <<"<", "=">> -> "LeftAngleEqual"
      [] d = <<">", "=">> -> "RightAngleEqual"
      [] d = <<"/", ">">> -> "SlashRightAngle"
      [] d = <<"/", "/">> -> "DoubleSlash"
      [] d = <<"/", "*">> -> "SlashStar"
      [] d = <<"*", "/">> -> "StarSlash"
      [] d = <<"<", "!", "-", "-">> -> "LeftAngleBangDashDash"
      [] d = <<"-", "-", ">">> -> "DashDashRightAngle"

\* The characters bounded sources are made of
Alphabet ==
    {"a", EAcute, SP, NBSP, LF, CR, NUL, ".", DQ, "<", "!", "-", ">", "=", "{", "}", "%", "#", "/",
     "*"}

Pieces == {<<c>> : c \in Alphabet} \cup Delimiters

RECURSIVE Concatenations(_)
Concatenations(n) ==
    IF n = 0 THEN {<<>>}
    ELSE LET shorter == Concatenations(n - 1)
         IN  shorter \cup {s \o p : s \in shorter, p \in Pieces}

\* The characters of the longer bounded sources
CoreAlphabet == {"a", SP, LF, "<", "!", "-", ">"}

RECURSIVE CoreStrings(_)
CoreStrings(n) ==
    IF n = 0 THEN {<<>>}
    ELSE LET shorter == CoreStrings(n - 1)
         IN  shorter \cup {Append(s, c) : s \in shorter, c \in CoreAlphabet}

BoundedSources == Concatenations(MaxPieces) \cup CoreStrings(MaxLen)

\* Sources named by the specification, the tests and the claims
NamedSources ==
    { <<"{", "{", SP, "n", "a", "m", "e", SP, "}", "}">>,
      <<"{", "%", SP, "i", "f", SP, "x", SP, "%", "}">>,
      <<"{", "#", SP, "n", "o", "t", "e", SP, "#", "}">>,
      <<"<", "i", "m", "g", SP, "s", "r", "c", "=", DQ, "x", ".", "j", "p", "g", DQ, ">">>,
      <<"<", "i", "n", "p", "u", "t", SP, "d", "i", "s", "a", "b", "l", "e", "d", ">">>,
      <<"a", LF, "b", LF, "c">>,
      <<"a", CR, LF, "b">>,
      <<"{", "{", SP, "x", SP, "}", "}", SP, "y">>,
      <<"<", "!", "D", "O", "C", "T", "Y", "P", "E", SP, "h", "t", "m", "l", ">">>,
      <<"<", "!", "-">>,
      <<"<", "p", SP, ">", SP, "h", "i">>,
      <<NBSP, NBSP, "-", "-", ">", "=">>,
      <<NBSP, SP, SP, "<", "a">>,
      <<"{", "{", SP, "x", SP, "}", "}", ".", "a">>,
      <<"<", "a", SP, "h", "r", "e", "f", "=", ">">>,
      <<"{", "{", SP, "x">>,
      <<"w", "i", "t", "h", SP, "s", "p", "a", "c", "e", "s">>,
      <<"w", "o", "r", "l", "d", "!">>,
      <<"{", "{", SP, "x", SP, "}", "}", "y">> }

\* The one-character sources of the token boundary characters
BoundarySources == {<<c>> : c \in TOKEN_BOUNDARIES}

Sources == BoundedSources \cup NamedSources \cup BoundarySources

----------------------------------------------------------------------------
(* Lexer::tokenize, one loop iteration per step *)

InitLexer ==
    /\ source \in Sources
    /\ start = 0
    /\ current = 0
    /\ line = 1
    /\ tokens = <<>>
    /\ starts = <<>>
    /\ lstatus = "scanning"
    /\ lerr = NoError

\* next_node has not been called
NoProduction == [first |-> -1]

InitParser ==
    /\ ptokens = <<>>
    /\ pcurrent = 0
    /\ ast = <<>>
    /\ pstatus = "idle"
    /\ perr = NoError
    /\ spans = <<>>
    /\ prod = NoProduction

\* No Node constructor has been called directly
NoCall == [ctor |-> "none"]

Init == InitLexer /\ InitParser /\ built = NoCall

\* One iteration of the loop of tokenize: next_token (peek, the match,
\* extract_lexeme, Token::new, advance) and add_token.
NextToken ==
    /\ lstatus = "scanning"
    /\ ~Lexer_is_at_end(source, current)
    /\ Len(tokens) < MaxTokens
    /\ LET r == next_token(source, current, line)
       IN  IF r.outcome = "ok"
           THEN /\ LET a == Lexer_advance(source, start, current, line,
                                           Token_size(r.token), Token_lines(r.token))
                   IN  /\ start' = a.start
                       /\ current' = a.current
                       /\ line' = a.line
                /\ tokens' = add_token(tokens, r.token)
                /\ starts' = Append(starts, current)
                /\ UNCHANGED <<lstatus, lerr>>
           ELSE /\ lstatus' = r.outcome
                /\ lerr' = IF r.outcome = "err" THEN r.err ELSE NoError
                /\ UNCHANGED <<start, current, line, tokens, starts>>
    /\ UNCHANGED <<source, ptokens, pcurrent, ast, pstatus, perr, spans, prod, built>>

\* The exit of the loop of tokenize: finalize(self.line) and Ok(tokens)
Finalize ==
    /\ lstatus = "scanning"
    /\ Lexer_is_at_end(source, current)
    /\ tokens' = finalize(tokens, line)
    /\ starts' = Append(starts, current)
    /\ lstatus' = "ok"
    /\ UNCHANGED <<source, start, current, line, lerr>>
    /\ UNCHANGED parvars
    /\ UNCHANGED built

----------------------------------------------------------------------------
(* compile: Parser::new(tokens.clone()).parse(), one loop iteration per step *)

\* Parser::new on the stream tokenize returned, and the Ast::new of parse
ParserNew ==
    /\ lstatus = "ok"
    /\ pstatus = "idle"
    /\ ptokens' = tokens
    /\ pcurrent' = 0
    /\ ast' = <<>>
    /\ pstatus' = "parsing"
    /\ UNCHANGED <<perr, spans, prod>>
    /\ UNCHANGED lexvars
    /\ UNCHANGED built

\* The effect of one next_node call whose production answered p
NextNodeStep(p) ==
    LET r == after_production(ptokens, p)
    IN  /\ pcurrent' = r.cur
        /\ prod' = [first |-> pcurrent, early |-> p.early, res |-> p.res]
        /\ IF r.ok
           THEN /\ ast' = add_node(ast, r.val)
                /\ spans' = Append(spans, [first |-> pcurrent,
                                           taken |-> IF ptokens[pcurrent + 1].token_type = "Text"
                                                     THEN pcurrent + 1 ELSE p.res.cur,
                                           after |-> r.cur])
                /\ UNCHANGED <<pstatus, perr>>
           ELSE /\ pstatus' = "err"
                /\ perr' = r.err
                /\ UNCHANGED <<ast, spans>>

\* One iteration of the loop of parse: next_node and add_node.  spans notes,
\* for a node returned, where its production began (first), the index just
\* past the last token the production took (taken) and the cursor next_node
\* left (after); prod notes where the production of the call began and the
\* Result it handed to the end of next_node, with the cursor it left.
NextNode ==
    /\ pstatus = "parsing"
    /\ ~Parser_is_at_end(ptokens, pcurrent)
    /\ NextNodeStep(production(ptokens, pcurrent))
    /\ UNCHANGED ptokens
    /\ UNCHANGED lexvars
    /\ UNCHANGED built

\* The exit of the loop of parse: Ok(ast)
ParseReturn ==
    /\ pstatus = "parsing"
    /\ Parser_is_at_end(ptokens, pcurrent)
    /\ pstatus' = "ok"
    /\ UNCHANGED <<ptokens, pcurrent, ast, perr, spans, prod>>
    /\ UNCHANGED lexvars
    /\ UNCHANGED built

Next == NextToken \/ Finalize \/ ParserNew \/ NextNode \/ ParseReturn

Spec == Init /\ [][Next]_vars

----------------------------------------------------------------------------
(* Parser::new(tokens).parse() on token streams built by hand, as the tests *)
(* of parser.rs build them with create_token_stream: the stream need not be *)
(* one tokenize returns.                                                    *)

MaxTail == 2        \* a bounded stream is an opening, at most MaxTail further tokens, and Eof or nothing

\* A token on line 1
Tok(t, lexeme) == Token_new(t, lexeme, 1)

tLeftAngle == Tok("LeftAngle", <<"<">>)
tRightAngle == Tok("RightAngle", <<">">>)
tSlashRightAngle == Tok("SlashRightAngle", <<"/", ">">>)
tBang == Tok("Bang", <<"!">>)
tEqual == Tok("Equal", <<"=">>)
tDoubleQuote == Tok("DoubleQuote", <<DQ>>)
tSingleQuote == Tok("SingleQuote", <<SQ>>)
tDot == Tok("Dot", <<".">>)
tWhitespace == Tok("Whitespace", <<SP>>)
tTextA == Tok("Text", <<"a">>)
tTextB == Tok("Text", <<"b">>)
tTextEmpty == Tok("Text", <<>>)
tDoubleLeftBrace == Tok("DoubleLeftBrace", <<"{", "{">>)
tDoubleRightBrace == Tok("DoubleRightBrace", <<"}", "}">>)
tLeftBracePercent == Tok("LeftBracePercent", <<"{", "%">>)
tPercentRightBrace == Tok("PercentRightBrace", <<"%", "}">>)
tLeftBraceHash == Tok("LeftBraceHash", <<"{", "#">>)
tHashRightBrace == Tok("HashRightBrace", <<"#", "}">>)
tCommentOpen == Tok("LeftAngleBangDashDash", <<"<", "!", "-", "-">>)
tCommentClose == Tok("DashDashRightAngle", <<"-", "-", ">">>)
tEof == Token_eof(1)

\* The openings of the bounded streams
StreamHeads ==
    { <<>>,
      <<tLeftAngle>>,
      <<tLeftAngle, tBang>>,
      <<tLeftAngle, tBang, tTextA>>,
      <<tLeftAngle, tTextA>>,
      <<tLeftAngle, tTextEmpty>>,
      <<tLeftAngle, tTextA, tTextB, tEqual>>,
      <<tDoubleLeftBrace>>,
      <<tLeftBracePercent>>,
      <<tLeftBraceHash>>,
      <<tCommentOpen>> }

\* The tokens that follow an opening
TailTokens ==
    { tRightAngle, tSlashRightAngle, tEqual, tDoubleQuote, tTextA, tTextEmpty, tWhitespace,
      tDoubleRightBrace, tPercentRightBrace, tHashRightBrace, tCommentClose, tEof }

RECURSIVE Tails(_)
Tails(n) ==
    IF n = 0 THEN {<<>>}
    ELSE LET shorter == Tails(n - 1)
         IN  shorter \cup {Append(s, t) : s \in shorter, t \in TailTokens}

\* A stream ends with the Eof of finalize, or was never finalized
Terminals == {<<>>, <<tEof>>}

\* Longer streams: a tag with a quoted attribute, a doctype, a block with
\* arguments, a construct after a text node, a stray token after a construct,
\* two blocks, two tags, a quote of the other kind inside a quoted value,
\* several attributes with a repeated name
NamedStreams ==
    { <<tLeftAngle, tTextA, tTextB, tEqual, tDoubleQuote, tTextA, tDot, tTextB, tDoubleQuote,
        tRightAngle, tTextA, tEof>>,
      <<tLeftAngle, tTextA, tTextB, tEqual, tDoubleQuote, tTextA, tEof>>,
      <<tLeftAngle, tTextA, tTextB, tEqual, tDot, tRightAngle, tEof>>,
      <<tLeftAngle, tTextA, tTextB, tSlashRightAngle, tTextA, tEof>>,
      <<tLeftAngle, tBang, tTextA, tTextB, tRightAngle, tTextA, tEof>>,
      <<tLeftAngle, tBang, tDot, tTextA, tRightAngle, tEof>>,
      <<tLeftBracePercent, tTextA, tTextB, tEqual, tPercentRightBrace, tTextA, tEof>>,
      <<tLeftBracePercent, tTextEmpty, tTextB, tPercentRightBrace, tTextA, tEof>>,
      <<tTextA, tDoubleLeftBrace, tTextB, tEof>>,
      <<tTextA, tLeftAngle, tTextB, tDot, tRightAngle, tEof>>,
      <<tDoubleLeftBrace, tTextA, tDoubleRightBrace, tDot, tTextB, tEof>>,
      <<tCommentOpen, tTextA, tTextB, tCommentClose, tTextA, tEof>>,
      <<tLeftBraceHash, tTextA, tHashRightBrace, tTextA, tTextB, tEof>>,
      <<tLeftBracePercent, tTextA, tPercentRightBrace, tTextB,
        tLeftBracePercent, tTextB, tPercentRightBrace, tTextA, tEof>>,
      <<tLeftAngle, tTextA, tRightAngle, tTextB, tLeftAngle, tTextB, tSlashRightAngle, tTextA, tEof>>,
      <<tLeftAngle, tTextA, tTextB, tEqual, tDoubleQuote, tTextA, tSingleQuote, tTextB, tDoubleQuote,
        tRightAngle, tTextA, tEof>>,
      <<tLeftAngle, tTextA, tTextB, tEqual, tSingleQuote, tTextA, tDoubleQuote, tWhitespace, tTextB,
        tSingleQuote, tSlashRightAngle, tTextA, tEof>>,
      <<tLeftAngle, tTextA, tTextB, tTextB, tEqual, tTextA, tTextB, tRightAngle, tTextA, tEof>>,
      <<tLeftAngle, tTextA, tTextB, tDot, tRightAngle, tEof>>,
      <<tLeftAngle, tBang, tTextA, tTextB, tEqual, tTextA, tRightAngle, tTextB, tEof>> }

TokenStreams ==
    {h \o t \o e : h \in StreamHeads, t \in Tails(MaxTail), e \in Terminals} \cup NamedStreams

\* A TokenStream built with add_token and finalize, handed to Parser::new
InitStream ==
    /\ source = <<>>
    /\ start = 0
    /\ current = 0
    /\ line = 1
    /\ tokens \in TokenStreams
    /\ starts = <<>>
    /\ lstatus = "ok"
    /\ lerr = NoError
    /\ InitParser
    /\ built = NoCall

NextParser == ParserNew \/ NextNode \/ ParseReturn

SpecParser == InitStream /\ [][NextParser]_vars

----------------------------------------------------------------------------
(* The Node constructors called directly, as the tests of ast.rs call them *)

Names == {<<>>, <<"a">>, <<"d", "i", "v">>, <<"i", "f">>}

AttributeLists ==
    { <<>>,
      << <<<<"d", "i", "s", "a", "b", "l", "e", "d">>, Boolean>> >>,
      << <<<<"i", "d">>, Value(<<"x">>)>> >>,
      << <<<<"i", "d">>, Value(<<"x">>)>>, <<<<"d", "i", "s", "a", "b", "l", "e", "d">>, Boolean>> >> }

ChildLists ==
    { <<>>,
      <<[kind |-> "Text", content |-> <<"a">>]>>,
      <<[kind |-> "Text", content |-> <<"a">>], [kind |-> "HTMLComment", content |-> <<"b">>]>> }

ArgumentLists == {<<>>, << <<"x">> >>, << <<"x">>, <<"y", "=", "1">> >>}

\* An Option over a set of values
Option(S) == {None} \cup {Some(x) : x \in S}

\* Node::new_html_element(tag, attributes, children)
NewHtmlElement ==
    /\ \E tag \in Names, attributes \in Option(AttributeLists), children \in Option(ChildLists) :
           built' = [ctor |-> "new_html_element", name |-> tag,
                     attributes |-> attributes, children |-> children,
                     result |-> new_html_element(tag, attributes, children)]
    /\ UNCHANGED lexvars
    /\ UNCHANGED parvars

\* Node::new_html_void_element(tag, attributes)
NewHtmlVoidElement ==
    /\ \E tag \in Names, attributes \in Option(AttributeLists) :
           built' = [ctor |-> "new_html_void_element", name |-> tag,
                     attributes |-> attributes,
                     result |-> new_html_void_element(tag, attributes)]
    /\ UNCHANGED lexvars
    /\ UNCHANGED parvars

\* Node::new_django_block(name, arguments, children)
NewDjangoBlock ==
    /\ \E name \in Names, arguments \in Option(ArgumentLists), children \in Option(ChildLists) :
           built' = [ctor |-> "new_django_block", name |-> name,
                     arguments |-> arguments, children |-> children,
                     result |-> new_django_block(name, arguments, children)]
    /\ UNCHANGED lexvars
    /\ UNCHANGED parvars

InitNode ==
    /\ source = <<>>
    /\ start = 0
    /\ current = 0
    /\ line = 1
    /\ tokens = <<>>
    /\ starts = <<>>
    /\ lstatus = "scanning"
    /\ lerr = NoError
    /\ InitParser
    /\ built = NoCall

NextCall == NewHtmlElement \/ NewHtmlVoidElement \/ NewDjangoBlock

SpecNode == InitNode /\ [][NextCall]_vars

----------------------------------------------------------------------------
(* The methods of the Lexer and of the Parser called directly, on an object  *)
(* whose cursor was set by hand, as the unit tests of lexer.rs and parser.rs *)
(* call them: each test builds its own object and makes one call            *)

\* The sources of the Lexers
UnitSources ==
    { <<>>, <<"a">>, <<"a", "b", LF, "c">>, <<"<", "!">>, <<NUL>>,
      <<EAcute>>, <<EAcute, "a">>, <<"a", NBSP, "b">> }

\* The streams of the Parsers
UnitStreams ==
    {h \o t \o e : h \in StreamHeads, t \in Tails(1), e \in Terminals} \cup NamedStreams

\* The kinds consume_until is asked to stop at
UnitKinds ==
    {"RightAngle", "DoubleRightBrace", "PercentRightBrace", "HashRightBrace",
     "DashDashRightAngle", "DoubleQuote", "SingleQuote"}

\* lexer.current = current; lexer.peek_at(offset): peek, peek_next and
\* peek_previous are the offsets 0, 1 and -1
CallPeekAt ==
    /\ built = NoCall
    /\ \E src \in UnitSources :
       \E cur \in 0..(ByteLen(src) + 1), offset \in (-2)..3 :
           built' = [ctor |-> "peek_at", source |-> src, current |-> cur, offset |-> offset,
                     result |-> Lexer_peek_at(src, cur, offset)]
    /\ UNCHANGED lexvars
    /\ UNCHANGED parvars

\* lexer.advance(chars, lines)
CallLexerAdvance ==
    /\ built = NoCall
    /\ \E src \in UnitSources :
       \E cur \in 0..(ByteLen(src) + 1), ln \in 1..2, chars \in 0..2, lines \in 0..1 :
       \E st \in 0..cur :
           built' = [ctor |-> "lexer_advance", source |-> src,
                     start |-> st, current |-> cur, line |-> ln,
                     chars |-> chars, lines |-> lines,
                     result |-> Lexer_advance(src, st, cur, ln, chars, lines)]
    /\ UNCHANGED lexvars
    /\ UNCHANGED parvars

\* parser.current = current; parser.advance()
CallParserAdvance ==
    /\ built = NoCall
    /\ \E toks \in UnitStreams :
       \E cur \in 0..(Len(toks) + 1) :
           built' = [ctor |-> "parser_advance", tokens |-> toks, current |-> cur,
                     result |-> Parser_advance(toks, cur)]
    /\ UNCHANGED lexvars
    /\ UNCHANGED parvars

\* parser.current = current; parser.consume_until(kind)
CallConsumeUntil ==
    /\ built = NoCall
    /\ \E toks \in UnitStreams :
       \E cur \in 0..Len(toks), kind \in UnitKinds :
           built' = [ctor |-> "consume_until", tokens |-> toks, current |-> cur, kind |-> kind,
                     result |-> consume_until(toks, cur, kind)]
    /\ UNCHANGED lexvars
    /\ UNCHANGED parvars

NextUnit == CallPeekAt \/ CallLexerAdvance \/ CallParserAdvance \/ CallConsumeUntil

SpecUnit == InitNode /\ [][NextUnit]_vars

----------------------------------------------------------------------------
(* Properties *)

\* the pipeline has come to rest: tokenize failed, or parse returned
Finished == lstatus \in {"err", "panic"} \/ pstatus \in {"ok", "err"}

\* the characters of src from byte offset k on begin with the characters d
StartsWithAt(src, k, d) ==
    LET i == CharIndexAt(src, k)
    IN  /\ i # -1
        /\ i + Len(d) <= Len(src)
        /\ SubSeq(src, i + 1, i + Len(d)) = d

\* C1: when tokenize returns Ok, the stream holds exactly one Eof token, and
\* it is the last element: no Eof token stands at an earlier position.
C1_ExactlyOneEofLast ==
    lstatus = "ok" =>
        /\ Len(tokens) >= 1
        /\ tokens[Len(tokens)].token_type = "Eof"
        /\ \A i \in 1..(Len(tokens) - 1) : tokens[i].token_type # "Eof"

\* C1 witness: tokenize returned Ok on a source that gave several tokens before Eof
C1_Witness ==
    /\ lstatus = "ok"
    /\ Len(tokens) >= 4
    /\ tokens[Len(tokens)].token_type = "Eof"

\* C2 (as claimed): the stream tokenize returns holds no Whitespace token
C2_NoWhitespaceInStream ==
    lstatus = "ok" => \A i \in 1..Len(tokens) : tokens[i].token_type # "Whitespace"

\* C3 (as claimed): no Text token of the scanner contains a token boundary character
C3_TextHasNoBoundary ==
    \A i \in 1..Len(tokens) :
        tokens[i].token_type = "Text" =>
            \A k \in 1..Len(tokens[i].lexeme) : tokens[i].lexeme[k] \notin TOKEN_BOUNDARIES

\* C4 (as claimed): after a production returns its node the cursor is on the
\* token right after the last token the production took, and a parse that
\* returns Ok has handed every token before Eof to exactly one production.
C4_CursorRightAfterProduction ==
    /\ \A i \in 1..Len(spans) : spans[i].after = spans[i].taken
    /\ pstatus = "ok" /\ Len(ptokens) >= 1 =>
          /\ \A i \in 1..Len(spans) :
                spans[i].first = (IF i = 1 THEN 0 ELSE spans[i - 1].taken)
          /\ (IF spans = <<>> THEN 0 ELSE spans[Len(spans)].taken) = Len(ptokens) - 1

Src_Variable == <<"{", "{", SP, "n", "a", "m", "e", SP, "}", "}">>
Src_Block == <<"{", "%", SP, "i", "f", SP, "x", SP, "%", "}">>
Src_Comment == <<"{", "#", SP, "n", "o", "t", "e", SP, "#", "}">>
Src_Img == <<"<", "i", "m", "g", SP, "s", "r", "c", "=", DQ, "x", ".", "j", "p", "g", DQ, ">">>
Src_Input == <<"<", "i", "n", "p", "u", "t", SP, "d", "i", "s", "a", "b", "l", "e", "d", ">">>

\* C5 (as claimed): `{{ name }}` gives the single node DjangoVariable("name"),
\* `{% if x %}` the single node DjangoBlock{name "if", arguments ["x"], children []},
\* `{# note #}` the single node DjangoComment("note").
C5_TemplatingConstructs ==
    Finished =>
        /\ source = Src_Variable =>
              /\ pstatus = "ok"
              /\ ast = <<[kind |-> "DjangoVariable", content |-> <<"n", "a", "m", "e">>]>>
        /\ source = Src_Block =>
              /\ pstatus = "ok"
              /\ ast = <<[kind |-> "DjangoBlock", name |-> <<"i", "f">>,
                          arguments |-> << <<"x">> >>, children |-> <<>>]>>
        /\ source = Src_Comment =>
              /\ pstatus = "ok"
              /\ ast = <<[kind |-> "DjangoComment", content |-> <<"n", "o", "t", "e">>]>>

\* C6 (as claimed): `<img src="x.jpg">` gives one element node with tag img and the
\* single attribute ("src", Value("x.jpg")); `<input disabled>` gives one element
\* node with tag input and the single attribute ("disabled", Boolean).
C6_AttributeParsing ==
    Finished =>
        /\ source = Src_Img =>
              /\ pstatus = "ok"
              /\ Len(ast) = 1
              /\ ast[1].kind \in {"HTMLElement", "HTMLVoidElement"}
              /\ ast[1].tag = <<"i", "m", "g">>
              /\ ast[1].attributes =
                    << << <<"s", "r", "c">>, Value(<<"x", ".", "j", "p", "g">>) >> >>
        /\ source = Src_Input =>
              /\ pstatus = "ok"
              /\ Len(ast) = 1
              /\ ast[1].kind \in {"HTMLElement", "HTMLVoidElement"}
              /\ ast[1].tag = <<"i", "n", "p", "u", "t">>
              /\ ast[1].attributes =
                    << << <<"d", "i", "s", "a", "b", "l", "e", "d">>, Boolean >> >>

\* The line breaks among the first n characters of s: a LF, a bare CR and a
\* CR LF pair each count once.
LineBreaks(s, n) ==
    Cardinality({j \in 1..n : \/ s[j] = CR
                              \/ s[j] = LF /\ (j = 1 \/ s[j - 1] # CR)})

\* The number of characters of s that begin before byte offset k
CharsBefore(s, k) == Cardinality({j \in 1..Len(s) : ByteLen(SubSeq(s, 1, j - 1)) < k})

\* C7 (as claimed): a token's line is 1 plus the number of line breaks in the
\* source before the token's first character.
C7_LineCountsBreaksBefore ==
    \A i \in 1..Len(tokens) :
        tokens[i].line = 1 + LineBreaks(source, CharsBefore(source, starts[i]))

\* C8: in a stream returned by tokenize the line numbers are at least 1 and
\* never decrease in stream order, and the Eof token carries the scanner's
\* line counter as it stands once the source is consumed.
C8_LinesMonotoneEofLast ==
    /\ \A i \in 1..Len(tokens) : tokens[i].line >= 1
    /\ \A i \in 1..Len(tokens) : \A j \in i..Len(tokens) : tokens[i].line <= tokens[j].line
    /\ lstatus = "ok" =>
          /\ tokens[Len(tokens)].token_type = "Eof"
          /\ tokens[Len(tokens)].line = line

\* C8 witness: a returned stream whose tokens stand on lines 1, 2 and 3
C8_Witness ==
    /\ lstatus = "ok"
    /\ tokens[Len(tokens)].line = 3
    /\ \E i \in 1..Len(tokens) : tokens[i].line = 1
    /\ \E i \in 1..Len(tokens) : tokens[i].line = 2 /\ tokens[i].token_type = "Text"

\* C9 (as claimed): a token scanned where the source begins with a
\* multi-character delimiter has that delimiter's kind and the delimiter as lexeme.
C9_DelimiterIsOneToken ==
    \A i \in 1..Len(tokens) :
        tokens[i].token_type # "Eof" =>
            \A d \in Delimiters :
                StartsWithAt(source, starts[i], d) =>
                    /\ tokens[i].token_type = DelimiterType(d)
                    /\ tokens[i].lexeme = d

\* C10 (as claimed): where the source begins with `<!` not followed by `--`,
\* the scanner gives a LeftAngle token with lexeme `<`, and no error.
C10_LeftAngleFallback ==
    /\ \A i \in 1..Len(tokens) :
          /\ tokens[i].token_type # "Eof"
          /\ StartsWithAt(source, starts[i], <<"<", "!">>)
          /\ ~StartsWithAt(source, starts[i], <<"<", "!", "-", "-">>)
          => /\ tokens[i].token_type = "LeftAngle"
             /\ tokens[i].lexeme = <<"<">>
    /\ lstatus \in {"err", "panic"} =>
          ~(/\ StartsWithAt(source, current, <<"<", "!">>)
            /\ ~StartsWithAt(source, current, <<"<", "!", "-", "-">>))

\* The kind TokenType gives a single boundary character: its own kind where the
\* enumeration has one, Whitespace for a whitespace character, Text otherwise.
BoundaryKind(c) ==
    CASE c = "<" -> "LeftAngle"
      [] c = ">" -> "RightAngle"
      [] c = "," -> "Comma"
      [] c = "." -> "Dot"
      [] c = "-" -> "Dash"
      [] c = "+" -> "Plus"
      [] c = ":" -> "Colon"
      [] c = "/" -> "Slash"
      [] c = "!" -> "Bang"
      [] c = "=" -> "Equal"
      [] c = "|" -> "Pipe"
      [] c = "%" -> "Percent"
      [] c = SQ -> "SingleQuote"
      [] c = DQ -> "DoubleQuote"
      [] c \in {SP, CR, TAB, LF} -> "Whitespace"
      [] OTHER -> "Text"

\* C11: for every character c of the token boundary set, tokenize on the
\* one-character source c returns exactly one token followed by Eof; the token
\* has the kind of c and the lexeme c.
C11_PunctuationRoundTrip ==
    \A c \in TOKEN_BOUNDARIES :
        source = <<c>> /\ (lstatus # "scanning" \/ Len(tokens) >= MaxTokens) =>
            /\ lstatus = "ok"
            /\ Len(tokens) = 2
            /\ tokens[1] = [token_type |-> BoundaryKind(c), lexeme |-> <<c>>, line |-> 1]
            /\ tokens[2].token_type = "Eof"

\* C11 witness: the one-character sources `!`, `(` and TAB have been tokenized
C11_Witness ==
    /\ lstatus = "ok"
    /\ source \in {<<"!">>, <<"(">>, <<TAB>>}
    /\ Len(tokens) = 2

\* C12 (as claimed): every next_token call that returns Ok strictly increases
\* the cursor, so tokenize takes at most len(source) iterations: the offsets at
\* which the tokens were scanned strictly increase, and the stream never holds
\* more tokens before Eof than the source has bytes.
C12_TokenizeTerminates ==
    /\ \A i \in 1..(Len(starts) - 1) : starts[i] < starts[i + 1]
    /\ Cardinality({i \in 1..Len(tokens) : tokens[i].token_type # "Eof"}) <= ByteLen(source)

\* C13 (as claimed): the scanner emits no token with an empty lexeme other than
\* Eof: a scan that leaves the cursor where it was ends tokenize with the
\* EmptyToken error and adds no token.
C13_EmptyTokenReported ==
    \A i \in 1..Len(tokens) :
        tokens[i].token_type # "Eof" =>
            /\ tokens[i].lexeme # <<>>
            /\ i < Len(starts) => starts[i + 1] > starts[i]

\* A stream as tokenize returns it: one Eof token, at the end
WellFormed(toks) ==
    /\ Len(toks) >= 1
    /\ toks[Len(toks)].token_type = "Eof"
    /\ \A i \in 1..(Len(toks) - 1) : toks[i].token_type # "Eof"

\* The cursor at which the next_node call that failed, or the next one to run, began
FailStart == IF spans = <<>> THEN 0 ELSE spans[Len(spans)].after

\* The kind of the token at position i of toks, "none" off the stream
KindAt(toks, i) == IF i >= 1 /\ i <= Len(toks) THEN toks[i].token_type ELSE "none"

\* No token of the kind stands after position i
NoneAfter(toks, i, kind) == \A k \in (i + 1)..Len(toks) : toks[k].token_type # kind

\* The first position after i that holds a token of the kind, 0 when there is none
FirstAfter(toks, i, kind) ==
    LET K == {k \in (i + 1)..Len(toks) : toks[k].token_type = kind}
    IN  IF K = {} THEN 0 ELSE CHOOSE k \in K : \A m \in K : k <= m

\* The grammar of a tag read from position i, just after the tag name, over the
\* kinds of the tokens alone: attributes (a name, then nothing, or `=` and a
\* quoted run or one Text) up to `>` or `/>`.  It answers "closed" when the
\* closing delimiter is found, "eof" when Eof comes first, and otherwise the
\* position of the token that is not of the kind the rule requires there, with
\* that kind.
RECURSIVE TagScan(_, _)
TagScan(toks, i) ==
    LET k == KindAt(toks, i)
    IN  CASE k \in {"RightAngle", "SlashRightAngle"} -> [kind |-> "closed"]
          [] k \in {"Eof", "none"} -> [kind |-> "eof"]
          [] k = "Text" ->
                IF KindAt(toks, i + 1) # "Equal" THEN TagScan(toks, i + 1)
                ELSE LET v == KindAt(toks, i + 2)
                     IN  CASE v = "Text" -> TagScan(toks, i + 3)
                           [] v \in {"Eof", "none"} -> [kind |-> "eof"]
                           [] v \in {"SingleQuote", "DoubleQuote"} ->
                                 IF FirstAfter(toks, i + 2, v) = 0 THEN [kind |-> "eof"]
                                 ELSE TagScan(toks, FirstAfter(toks, i + 2, v) + 1)
                           [] OTHER -> [kind |-> "mismatch", at |-> i + 2, expected |-> "Text"]
          [] OTHER -> [kind |-> "mismatch", at |-> i, expected |-> "RightAngle"]

\* The construct that opens at cursor f (position f + 1) of a well-formed
\* stream runs into Eof before its closing delimiter
Unterminated(toks, f) ==
    LET k == KindAt(toks, f + 1)
    IN  CASE k = "LeftAngleBangDashDash" -> NoneAfter(toks, f + 1, "DashDashRightAngle")
          [] k = "LeftBracePercent" -> NoneAfter(toks, f + 1, "PercentRightBrace")
          [] k = "DoubleLeftBrace" -> NoneAfter(toks, f + 1, "DoubleRightBrace")
          [] k = "LeftBraceHash" -> NoneAfter(toks, f + 1, "HashRightBrace")
          [] k = "LeftAngle" /\ KindAt(toks, f + 2) = "Bang" ->
                \/ KindAt(toks, f + 3) = "Eof"
                \/ KindAt(toks, f + 3) = "Text" /\ NoneAfter(toks, f + 3, "RightAngle")
          [] k = "LeftAngle" /\ KindAt(toks, f + 2) = "Text" ->
                TagScan(toks, f + 3).kind = "eof"
          [] OTHER -> FALSE

\* C14: when Eof is reached inside a tag, comment, doctype, variable, block or
\* template-comment production before its closing delimiter, parse returns the
\* end-of-stream error, and no node of a parse that returned Ok was built from
\* such a construct.
C14_EofInsideProduction ==
    WellFormed(ptokens) =>
        /\ pstatus = "err" /\ Unterminated(ptokens, FailStart) => perr = AtEndOfStream
        /\ pstatus = "ok" => \A i \in 1..Len(spans) : ~Unterminated(ptokens, spans[i].first)

\* C14 witness: parse failed on an unterminated construct that follows a text node
C14_Witness ==
    /\ WellFormed(ptokens)
    /\ pstatus = "err"
    /\ Len(spans) = 1
    /\ Unterminated(ptokens, FailStart)
    /\ perr = AtEndOfStream

\* The kinds Parser::next_node has a production for
ProductionKinds ==
    {"LeftAngle", "LeftAngleBangDashDash", "LeftBracePercent", "DoubleLeftBrace",
     "LeftBraceHash", "Text", "Eof"}

\* The token at cursor i belongs to no node: no production took it
TopLevel(i) == \A k \in 1..Len(spans) : ~(spans[k].first <= i /\ i < spans[k].taken)

\* C15 (as claimed): a token at top level whose kind has no production makes
\* parse fail with UnexpectedToken carrying that token; a parse that returned
\* Ok has met no such token.
C15_StrayTokenRejected ==
    /\ pstatus = "ok" =>
          \A i \in 0..(Len(ptokens) - 2) :
              TopLevel(i) => ptokens[i + 1].token_type \in ProductionKinds
    /\ pstatus = "err" /\ KindAt(ptokens, FailStart + 1) \notin ProductionKinds =>
          perr = UnexpectedToken(ptokens[FailStart + 1])

\* C16: when a production meets a token, other than the Eof of C14, whose kind
\* is not the kind its rule requires at that position, parse returns
\* ExpectedTokenType(found, expected): the doctype keyword after `<!`, the
\* token that ends the attributes of a tag, the value of an attribute after `=`.
C16_ExpectedTokenTypeReported ==
    WellFormed(ptokens) /\ pstatus = "err" /\ KindAt(ptokens, FailStart + 1) = "LeftAngle" =>
        LET f == FailStart
            scan == TagScan(ptokens, f + 3)
        IN  /\ KindAt(ptokens, f + 2) = "Bang" /\ KindAt(ptokens, f + 3) \notin {"Text", "Eof"} =>
                  perr = ExpectedTokenType(ptokens[f + 3], "Text")
            /\ KindAt(ptokens, f + 2) = "Text" /\ scan.kind = "mismatch" =>
                  perr = ExpectedTokenType(ptokens[scan.at], scan.expected)

\* C16 witness: parse failed where the value of an attribute was required
C16_Witness ==
    /\ WellFormed(ptokens)
    /\ pstatus = "err"
    /\ KindAt(ptokens, FailStart + 1) = "LeftAngle"
    /\ KindAt(ptokens, FailStart + 2) = "Text"
    /\ TagScan(ptokens, FailStart + 3).kind = "mismatch"
    /\ TagScan(ptokens, FailStart + 3).expected = "Text"
    /\ perr.kind = "ExpectedTokenType"

\* C18: in every AST parse builds, on any token stream, every HTMLElement and
\* HTMLVoidElement has a non-empty tag and every DjangoBlock a non-empty name.
C18_NamesNeverEmpty ==
    \A i \in 1..Len(ast) :
        /\ ast[i].kind \in {"HTMLElement", "HTMLVoidElement"} => ast[i].tag # <<>>
        /\ ast[i].kind = "DjangoBlock" => ast[i].name # <<>>

\* C18 witness: parse returned Ok with an element node on a stream that holds
\* a Text token with an empty lexeme
C18_Witness ==
    /\ pstatus = "ok"
    /\ \E i \in 1..Len(ast) : ast[i].kind = "HTMLElement"
    /\ \E i \in 1..Len(ptokens) : ptokens[i] = tTextEmpty

NoTagName == [kind |-> "NodeError", error |-> "NoTagName"]
NoBlockName == [kind |-> "NodeError", error |-> "NoBlockName"]

\* An absent list stands for the empty list
OrEmpty(o) == IF o.some THEN o.val ELSE <<>>

\* C17: new_html_element and new_html_void_element with an empty tag fail with
\* NoTagName, new_django_block with an empty name fails with NoBlockName; with
\* a non-empty name each returns its node, carrying that name, with absent
\* attributes, arguments and children as empty lists.
C17_EmptyNameRejected ==
    /\ built.ctor = "new_html_element" =>
          built.result = IF built.name = <<>> THEN Err(NoTagName)
                         ELSE Ok([kind |-> "HTMLElement", tag |-> built.name,
                                  attributes |-> OrEmpty(built.attributes),
                                  children |-> OrEmpty(built.children)])
    /\ built.ctor = "new_html_void_element" =>
          built.result = IF built.name = <<>> THEN Err(NoTagName)
                         ELSE Ok([kind |-> "HTMLVoidElement", tag |-> built.name,
                                  attributes |-> OrEmpty(built.attributes)])
    /\ built.ctor = "new_django_block" =>
          built.result = IF built.name = <<>> THEN Err(NoBlockName)
                         ELSE Ok([kind |-> "DjangoBlock", name |-> built.name,
                                  arguments |-> OrEmpty(built.arguments),
                                  children |-> OrEmpty(built.children)])

\* C17 witness: new_django_block was called with an empty name and failed
C17_Witness ==
    /\ built.ctor = "new_django_block"
    /\ built.name = <<>>
    /\ ~built.result.ok

Src_AHref == <<"<", "a", SP, "h", "r", "e", "f", "=", ">">>

\* C20 (as claimed): on `<a href=>` the pipeline fails, builds no AST, and the
\* error names what stands where the attribute value was expected: the
\* character `>` (from the scanner) or the token `>` (from the parser).
C20_ErrorLocality ==
    source = Src_AHref /\ Finished =>
        /\ pstatus # "ok"
        /\ ast = <<>>
        /\ \/ /\ lstatus = "err"
              /\ lerr.kind = "UnexpectedCharacter"
              /\ lerr.character = ">"
           \/ /\ pstatus = "err"
              /\ perr.kind \in {"ExpectedTokenType", "UnexpectedToken"}
              /\ perr.found.token_type = "RightAngle"

\* The stream ends with an Eof token
EofTerminated(toks) == Len(toks) >= 1 /\ toks[Len(toks)].token_type = "Eof"

\* C21: on a stream that ends with Eof the cursor of the parser starts at
\* index 0, never decreases from one step of parse to the next, never goes past
\* the index of the Eof token, and is on the Eof token when parse returns Ok.
C21_CursorMonotoneBounded ==
    /\ [](pstatus = "idle" => pcurrent = 0)
    /\ [](EofTerminated(ptokens) =>
             /\ pcurrent <= Len(ptokens) - 1
             /\ pstatus = "ok" => pcurrent = Len(ptokens) - 1)
    /\ [][/\ pcurrent' >= pcurrent
          /\ pstatus = "idle" => pcurrent' = 0]_vars

\* C21 witness: parse returned Ok after two nodes, the cursor on the Eof token
C21_Witness ==
    /\ EofTerminated(ptokens)
    /\ pstatus = "ok"
    /\ Len(spans) >= 2
    /\ pcurrent = Len(ptokens) - 1

\* The closing delimiter of the construct a token of the kind opens, for the
\* constructs read with consume_until up to their closing delimiter
Closer(kind) ==
    CASE kind = "LeftAngleBangDashDash" -> "DashDashRightAngle"
      [] kind = "LeftBracePercent" -> "PercentRightBrace"
      [] kind = "DoubleLeftBrace" -> "DoubleRightBrace"
      [] kind = "LeftBraceHash" -> "HashRightBrace"
      [] OTHER -> "none"

\* C22: parse ends on every finite stream.  Every iteration of its loop that
\* does not return an error moves the cursor forward by at least one token, so
\* the iterations made never outnumber the tokens passed and the cursor stays
\* on the stream; and a production whose closing delimiter is absent stops
\* collecting on the last token, the Eof, and fails there.
C22_ParseTerminates ==
    /\ [][pstatus = "parsing" /\ pstatus' = "parsing" => pcurrent' > pcurrent]_vars
    /\ [](Len(ast) <= pcurrent /\ (Len(ptokens) >= 1 => pcurrent <= Len(ptokens) - 1))
    /\ [](/\ WellFormed(ptokens)
          /\ prod.first >= 0
          /\ Closer(ptokens[prod.first + 1].token_type) # "none"
          /\ NoneAfter(ptokens, prod.first + 1, Closer(ptokens[prod.first + 1].token_type))
          => ~prod.res.ok /\ prod.res.cur = Len(ptokens) - 1)

\* C22 witness: parse returned an error on a variable that is never closed,
\* consume_until having stopped on the last token after collecting two tokens
C22_Witness ==
    /\ pstatus = "err"
    /\ WellFormed(ptokens)
    /\ Len(ptokens) >= 4
    /\ ptokens[1].token_type = "DoubleLeftBrace"
    /\ NoneAfter(ptokens, 1, "DoubleRightBrace")
    /\ prod.res.cur = Len(ptokens) - 1

\* Every character of the string is encoded in one byte
IsAscii(s) == \A i \in 1..Len(s) : len_utf8(s[i]) = 1

\* C23 (as claimed): for an ASCII source, every token's lexeme is the source
\* substring at the offset where it was scanned, the lexemes of the tokens
\* returned so far concatenate to the source up to the cursor, and the lexemes
\* of all the tokens concatenate to the whole source: once tokenize has
\* returned, and already once as many tokens are returned as the source has
\* characters.
C23_LexemesReproduceSource ==
    IsAscii(source) =>
        /\ \A i \in 1..Len(tokens) :
              tokens[i].lexeme = SubSeq(source, starts[i] + 1, starts[i] + Len(tokens[i].lexeme))
        /\ ConcatLexemes(tokens) = SubSeq(source, 1, current)
        /\ lstatus = "ok" \/ Len(tokens) >= Len(source) => ConcatLexemes(tokens) = source

\* The indexes past the end of the source that the scan of token i read
PastEnd(i) ==
    {starts[i] + o : o \in PeekOffsets(Lexer_peek(source, starts[i]))}
        \ (0..(ByteLen(source) - 1))

RangeErrors == {"AtBeginningOfSource", "AtEndOfSource", "EmptySource"}

\* C24 (as claimed): a scan that reads the source at an index out of its range
\* ends with one of the range errors and returns no token, so every token of
\* the stream was scanned with all its reads inside the source.
C24_OutOfRangeReported ==
    \A i \in 1..Len(tokens) : tokens[i].token_type # "Eof" => PastEnd(i) = {}

\* C24 (amended): a read of the source at an index at or after its end answers
\* the NUL character and no error: tokenize never returns a range error, the
\* scan goes on as if the source ended with NUL, so that a boundary character
\* that is the last character of an ASCII source is scanned as it is when it
\* is the whole source, and the empty source gives the stream of Eof alone.
C24_PastEndReadsNul ==
    /\ lerr.kind \notin RangeErrors
    /\ \A i \in 1..Len(tokens) : \A k \in PastEnd(i) : Lexer_item_at(source, k) = NUL
    /\ IsAscii(source) =>
          \A i \in 1..Len(tokens) :
              /\ tokens[i].token_type # "Eof"
              /\ starts[i] = Len(source) - 1
              /\ source[Len(source)] \in TOKEN_BOUNDARIES
              => tokens[i] = Token_new(BoundaryKind(source[Len(source)]),
                                       <<source[Len(source)]>>, tokens[i].line)
    /\ source = <<>> /\ lstatus = "ok" => tokens = <<Token_eof(1)>>

\* C24 witness: tokenize returned Ok on a source of several characters whose
\* last character `<` was scanned with three reads past the end
C24_Witness ==
    /\ lstatus = "ok"
    /\ Len(tokens) = 3
    /\ tokens[2].token_type = "LeftAngle"
    /\ Cardinality(PastEnd(2)) = 3

\* C25: every HTMLElement and every DjangoBlock node that a production
\* returns, and every such node of the AST, has an empty children list: a later
\* tag or block is a root node of its own, never the child of an earlier one.
C25_ChildrenAlwaysEmpty ==
    /\ \A i \in 1..Len(ast) :
          ast[i].kind \in {"HTMLElement", "DjangoBlock"} => ast[i].children = <<>>
    /\ prod.first >= 0 /\ prod.res.ok /\ prod.res.val.kind \in {"HTMLElement", "DjangoBlock"} =>
          prod.res.val.children = <<>>

\* C25 witness: parse returned Ok with two blocks, or two tags the first of
\* them an HTMLElement, as root nodes one after the other
C25_Witness ==
    /\ pstatus = "ok"
    /\ Len(ast) = 2
    /\ ast[1].kind \in {"HTMLElement", "DjangoBlock"}
    /\ ast[2].kind \in {"HTMLVoidElement", "DjangoBlock"}

EmptyDjangoBlock == [kind |-> "NodeError", error |-> "EmptyDjangoBlock"]

\* C26: on a stream that ends with its one Eof, the block production that
\* begins on a `{%` followed somewhere by a `%}` takes the tokens strictly
\* between the `{%` and the first `%}` after it.  With no token between them
\* it fails with EmptyDjangoBlock; with a first token of empty lexeme the
\* constructor refuses the name (C17); otherwise it returns the DjangoBlock
\* whose name is the first token's lexeme, whose arguments are the texts of
\* the other tokens in stream order and whose children are empty, and leaves
\* the cursor just past the `%}`.
C26_BlockProduction ==
    /\ WellFormed(ptokens)
    /\ prod.first >= 0
    /\ ptokens[prod.first + 1].token_type = "LeftBracePercent"
    /\ FirstAfter(ptokens, prod.first + 1, "PercentRightBrace") # 0
    => LET close == FirstAfter(ptokens, prod.first + 1, "PercentRightBrace")
           content == SubSeq(ptokens, prod.first + 2, close - 1)
       IN  IF content = <<>>
           THEN ~prod.res.ok /\ prod.res.err = EmptyDjangoBlock
           ELSE IF content[1].lexeme = <<>>
           THEN ~prod.res.ok /\ prod.res.err = NoBlockName
           ELSE /\ prod.res.ok
                /\ prod.res.val =
                      [kind |-> "DjangoBlock",
                       name |-> content[1].lexeme,
                       arguments |-> [i \in 1..(Len(content) - 1) |-> content[i + 1].lexeme],
                       children |-> <<>>]
                /\ prod.res.cur = close

\* C26 witness: the block production returned a block with two arguments
C26_Witness ==
    /\ WellFormed(ptokens)
    /\ prod.first >= 0
    /\ ptokens[prod.first + 1].token_type = "LeftBracePercent"
    /\ prod.res.ok
    /\ Len(prod.res.val.arguments) = 2

\* The node kind of the construct a token of the kind opens, for the
\* constructs whose node carries one text
TextNodeKind(kind) ==
    CASE kind = "LeftAngleBangDashDash" -> "HTMLComment"
      [] kind = "DoubleLeftBrace" -> "DjangoVariable"
      [] kind = "LeftBraceHash" -> "DjangoComment"
      [] OTHER -> "none"

\* The lexemes of the tokens, in order, with one space between neighbours
RECURSIVE SpaceJoined(_)
SpaceJoined(toks) ==
    IF toks = <<>> THEN <<>>
    ELSE IF Len(toks) = 1 THEN toks[1].lexeme
    ELSE SpaceJoined(SubSeq(toks, 1, Len(toks) - 1)) \o <<SP>> \o toks[Len(toks)].lexeme

\* C27: on a stream that ends with its one Eof, the production that begins on
\* `<!--`, `{{` or `{#` followed somewhere by the closing delimiter of its
\* kind returns the HTMLComment, DjangoVariable or DjangoComment whose text is
\* the lexemes of the tokens strictly between the opening delimiter and the
\* first closing delimiter after it, in stream order, joined by single spaces,
\* and leaves the cursor just past that closing delimiter.
C27_DelimitedText ==
    /\ WellFormed(ptokens)
    /\ prod.first >= 0
    /\ TextNodeKind(ptokens[prod.first + 1].token_type) # "none"
    /\ FirstAfter(ptokens, prod.first + 1, Closer(ptokens[prod.first + 1].token_type)) # 0
    => LET opener == ptokens[prod.first + 1].token_type
           close == FirstAfter(ptokens, prod.first + 1, Closer(opener))
       IN  /\ prod.res.ok
           /\ prod.res.val =
                 [kind |-> TextNodeKind(opener),
                  content |-> SpaceJoined(SubSeq(ptokens, prod.first + 2, close - 1))]
           /\ prod.res.cur = close

\* C27 witness: the comment production returned the text of two tokens
C27_Witness ==
    /\ WellFormed(ptokens)
    /\ prod.first >= 0
    /\ prod.res.ok
    /\ prod.res.val = [kind |-> "HTMLComment", content |-> <<"a", SP, "b">>]

\* The lexemes of the tokens, in order, with nothing between them
RECURSIVE Unseparated(_)
Unseparated(toks) ==
    IF toks = <<>> THEN <<>>
    ELSE Unseparated(SubSeq(toks, 1, Len(toks) - 1)) \o toks[Len(toks)].lexeme

\* An attribute put in front of the attributes read after it
WithAttribute(a, w) == IF w.ok THEN [w EXCEPT !.attrs = <<a>> \o w.attrs] ELSE w

\* The attributes of a tag read off the stream by position, from the name
\* position i on.  [ok |-> TRUE, end, attrs]: the attributes up to position
\* end, the first name position that holds no Text token.  [ok |-> FALSE, at,
\* expected]: the token at position at is not of the kind an attribute value
\* requires there (a Text for an unquoted value, the opening quote's kind for
\* the end of a quoted one, missed at Eof).
RECURSIVE AttrWalk(_, _)
AttrWalk(toks, i) ==
    IF KindAt(toks, i) # "Text" THEN [ok |-> TRUE, end |-> i, attrs |-> <<>>]
    ELSE IF KindAt(toks, i + 1) # "Equal"
    THEN WithAttribute(<<toks[i].lexeme, Boolean>>, AttrWalk(toks, i + 1))
    ELSE LET v == KindAt(toks, i + 2)
             q == FirstAfter(toks, i + 2, v)
         IN  CASE v = "Text" ->
                    WithAttribute(<<toks[i].lexeme, Value(toks[i + 2].lexeme)>>,
                                  AttrWalk(toks, i + 3))
               [] v \in {"SingleQuote", "DoubleQuote"} /\ q # 0 ->
                    WithAttribute(<<toks[i].lexeme, Value(Unseparated(SubSeq(toks, i + 3, q - 1)))>>,
                                  AttrWalk(toks, q + 1))
               [] v \in {"SingleQuote", "DoubleQuote"} /\ q = 0 ->
                    [ok |-> FALSE, at |-> Len(toks), expected |-> v]
               [] OTHER -> [ok |-> FALSE, at |-> i + 2, expected |-> "Text"]

\* next_node ran the tag production: the call began on `<` followed by a Text
\* token, on a stream that ends with its one Eof
TagRan ==
    /\ WellFormed(ptokens)
    /\ prod.first >= 0
    /\ KindAt(ptokens, prod.first + 1) = "LeftAngle"
    /\ KindAt(ptokens, prod.first + 2) = "Text"

\* C28: in a tag, a value that opens with a quote runs to the first quote
\* token of the same kind after it (a quote of the other kind is part of the
\* value) and is the lexemes of the tokens between the two, in order, with
\* nothing between them; an unquoted value is one Text token; a token after
\* `=` that is neither a quote nor a Text makes the production fail with
\* ExpectedTokenType(that token, Text), the cursor left on it, and a quoted
\* value with no quote of its kind before Eof with ExpectedTokenType(Eof, that
\* kind).
C28_AttributeValue ==
    TagRan =>
        LET w == AttrWalk(ptokens, prod.first + 3)
        IN  /\ ~w.ok =>
                  /\ ~prod.res.ok
                  /\ prod.res.err = ExpectedTokenType(ptokens[w.at], w.expected)
                  /\ prod.res.cur = w.at - 1
            /\ w.ok /\ prod.res.ok =>
                  \A j \in 1..Len(w.attrs) :
                      w.attrs[j][2].kind = "Value" =>
                          /\ j <= Len(prod.res.val.attributes)
                          /\ prod.res.val.attributes[j][2] = w.attrs[j][2]

\* C28 witness: the tag production returned an attribute whose value, opened
\* and closed by `'`, holds a `"`
C28_Witness ==
    /\ TagRan
    /\ prod.res.ok
    /\ prod.res.val.attributes = << <<<<"b">>, Value(<<"a", DQ, SP, "b">>)>> >>

\* C29: in a tag whose attribute values are all well formed, every Text token
\* at a name position gives one attribute, in stream order, repeated names
\* kept: a Value when the token after the name is `=`, a Boolean otherwise;
\* the attributes end at the first name position that holds no Text token,
\* where the production finds the end of the tag or fails with the cursor on
\* that token.
C29_AttributesInOrder ==
    TagRan /\ AttrWalk(ptokens, prod.first + 3).ok =>
        LET w == AttrWalk(ptokens, prod.first + 3)
        IN  /\ prod.res.ok =>
                  /\ prod.res.cur = w.end
                  /\ Len(prod.res.val.attributes) = Len(w.attrs)
                  /\ \A j \in 1..Len(w.attrs) :
                        /\ prod.res.val.attributes[j][1] = w.attrs[j][1]
                        /\ prod.res.val.attributes[j][2].kind = w.attrs[j][2].kind
            /\ ~prod.res.ok /\ prod.res.err.kind # "NodeError" => prod.res.cur = w.end - 1

\* C29 witness: the tag production returned three attributes, two of them of
\* the same name, a Boolean, a Value and a Boolean
C29_Witness ==
    /\ TagRan
    /\ prod.res.ok
    /\ Len(prod.res.val.attributes) = 3
    /\ prod.res.val.attributes[1] = <<<<"b">>, Boolean>>
    /\ prod.res.val.attributes[2] = <<<<"b">>, Value(<<"a">>)>>
    /\ prod.res.val.attributes[3] = <<<<"b">>, Boolean>>

\* C30: in a tag with a name that is not empty and well formed attributes, the
\* token that follows the attributes decides: on `/>` the production returns
\* an HTMLVoidElement, on `>` an HTMLElement with no children, each with the
\* tag name and the cursor just past that token; on any other token it fails
\* with ExpectedTokenType(that token, RightAngle), the cursor left on it.
C30_VoidOrContainer ==
    /\ TagRan
    /\ ptokens[prod.first + 2].lexeme # <<>>
    /\ AttrWalk(ptokens, prod.first + 3).ok
    => LET w == AttrWalk(ptokens, prod.first + 3)
           tag == ptokens[prod.first + 2].lexeme
       IN  CASE KindAt(ptokens, w.end) = "SlashRightAngle" ->
                    /\ prod.res.ok
                    /\ prod.res.val = [kind |-> "HTMLVoidElement", tag |-> tag,
                                       attributes |-> prod.res.val.attributes]
                    /\ prod.res.cur = w.end
             [] KindAt(ptokens, w.end) = "RightAngle" ->
                    /\ prod.res.ok
                    /\ prod.res.val = [kind |-> "HTMLElement", tag |-> tag,
                                       attributes |-> prod.res.val.attributes,
                                       children |-> <<>>]
                    /\ prod.res.cur = w.end
             [] OTHER ->
                    /\ ~prod.res.ok
                    /\ prod.res.err = ExpectedTokenType(ptokens[w.end], "RightAngle")
                    /\ prod.res.cur = w.end - 1

\* C30 witness: the tag production returned an HTMLVoidElement with an attribute
C30_Witness ==
    /\ TagRan
    /\ prod.res.ok
    /\ prod.res.val.kind = "HTMLVoidElement"
    /\ Len(prod.res.val.attributes) = 1

\* C31: consume_until(kind), called with the cursor on a stream that ends
\* with its one Eof, returns the tokens from the cursor up to, not including,
\* the first token of the kind at or after the cursor, and leaves the cursor on
\* that token; with no such token it returns the tokens up to the Eof and
\* leaves the cursor on the Eof.  The list holds no token of the kind and no
\* Eof; any other token, an opening delimiter too, is in it.
C31_ConsumeUntil ==
    /\ built.ctor = "consume_until"
    /\ WellFormed(built.tokens)
    /\ built.current < Len(built.tokens)
    => LET toks == built.tokens
           first == FirstAfter(toks, built.current, built.kind)
           stop == IF first = 0 THEN Len(toks) ELSE first
       IN  /\ built.result.ok
           /\ built.result.val = SubSeq(toks, built.current + 1, stop - 1)
           /\ built.result.cur = stop - 1
           /\ \A j \in 1..Len(built.result.val) :
                 built.result.val[j].token_type \notin {built.kind, "Eof"}

\* C31 witness: consume_until(`}}`) returned two tokens, the first of them an
\* opening `{{`, and left the cursor on a `}}`
C31_Witness ==
    /\ built.ctor = "consume_until"
    /\ WellFormed(built.tokens)
    /\ built.kind = "DoubleRightBrace"
    /\ built.result.ok
    /\ Len(built.result.val) = 2
    /\ built.result.val[1].token_type = "DoubleLeftBrace"
    /\ built.tokens[built.result.cur + 1].token_type = "DoubleRightBrace"

\* The characters of s from character index k (0-based) up to, not including,
\* the next whitespace character, or up to the end of s
RunToWhitespace(s, k) ==
    LET stops == {j \in (k + 1)..Len(s) : is_whitespace(s[j])}
        end == IF stops = {} THEN Len(s)
               ELSE (CHOOSE j \in stops : \A m \in stops : j <= m) - 1
    IN  SubSeq(s, k + 1, end)

\* C32 (as claimed): the lexeme of every Text token is the source from the
\* offset where the token was scanned up to, not including, the next
\* whitespace character, or up to the end of the source.
C32_TextRunsToWhitespace ==
    \A i \in 1..Len(tokens) :
        tokens[i].token_type = "Text" /\ CharIndexAt(source, starts[i]) # -1 =>
            tokens[i].lexeme = RunToWhitespace(source, CharIndexAt(source, starts[i]))

\* C32 without NUL: the same, for a source that holds no NUL character; the
\* Text tokens of `with spaces` and `world!` are `with`, `spaces` and `world!`
C32_TextRunsWithoutNul ==
    /\ (\A k \in 1..Len(source) : source[k] # NUL) => C32_TextRunsToWhitespace
    /\ source = <<"w", "o", "r", "l", "d", "!">> /\ Len(tokens) >= 1
          => tokens[1].lexeme = source

\* The character of src at byte offset k, NUL past the end (ASCII sources)
CharAt(src, k) == IF k < Len(src) THEN src[k + 1] ELSE NUL

\* C33, the scan of a `-`: in an ASCII source, a token scanned at a `-` that
\* is not followed by `-` is a Dash token with lexeme `-`; one scanned at `--`
\* not followed by `>` is a Text token; and the scan at a `-` never fails.
C33_DashOrText ==
    IsAscii(source) =>
        /\ \A i \in 1..Len(tokens) :
              tokens[i].token_type # "Eof" /\ CharAt(source, starts[i]) = "-" =>
                  /\ CharAt(source, starts[i] + 1) # "-"
                        => tokens[i].token_type = "Dash" /\ tokens[i].lexeme = <<"-">>
                  /\ CharAt(source, starts[i] + 1) = "-" /\ CharAt(source, starts[i] + 2) # ">"
                        => tokens[i].token_type = "Text"
                  /\ tokens[i].token_type = "DashDashRightAngle"
                        => StartsWithAt(source, starts[i], <<"-", "-", ">">>)
        /\ lstatus \in {"err", "panic"} => CharAt(source, current) # "-"

\* C33 (as claimed): that, and once tokenize has returned Ok on an ASCII
\* source, every `-->` of the source that does not follow a `-` is one
\* DashDashRightAngle token of the stream, scanned at its offset.
C33_CloserOnlyDashDashAngle ==
    /\ C33_DashOrText
    /\ lstatus = "ok" /\ IsAscii(source) =>
          \A k \in 0..(Len(source) - 3) :
              /\ SubSeq(source, k + 1, k + 3) = <<"-", "-", ">">>
              /\ k = 0 \/ source[k] # "-"
              => \E i \in 1..Len(tokens) :
                    /\ starts[i] = k
                    /\ tokens[i].token_type = "DashDashRightAngle"
                    /\ tokens[i].lexeme = <<"-", "-", ">">>

\* The stream handed to the parser holds the Eof token and nothing else
OnlyEof == Len(ptokens) = 1 /\ ptokens[1].token_type = "Eof"

\* C34: parse on a stream of the Eof token alone never enters its loop: no
\* production is called, the AST stays empty, no error is set, and the one
\* step parse takes is the return of Ok.
C34_OnlyEofParsesToEmpty ==
    /\ [](OnlyEof => /\ ast = <<>>
                     /\ spans = <<>>
                     /\ prod = NoProduction
                     /\ perr = NoError
                     /\ pstatus \in {"parsing", "ok"}
                     /\ pcurrent = 0)
    /\ [][OnlyEof /\ pstatus = "parsing" => pstatus' = "ok"]_vars

\* C34 witness: parse has returned Ok with an empty AST on the stream of one Eof
C34_Witness == OnlyEof /\ pstatus = "ok" /\ ast = <<>>

\* The cursor of the lexer once token i was returned
CursorAfter(i) == IF i < Len(tokens) THEN starts[i + 1] ELSE current

\* C35 (as claimed): after each token the cursor is the byte offset of the end
\* of the token's lexeme; the cursor is on a character boundary and not past
\* the end of the source, the character read at the cursor is the first
\* character of the rest of the source, and no read panics.
C35_CursorIsByteOffset ==
    /\ \A i \in 1..Len(tokens) :
          tokens[i].token_type # "Eof" =>
              CursorAfter(i) = starts[i] + ByteLen(tokens[i].lexeme)
    /\ current <= ByteLen(source)
    /\ CharIndexAt(source, current) # -1
    /\ current < ByteLen(source) =>
          Lexer_peek(source, current) = source[CharIndexAt(source, current) + 1]
    /\ lstatus # "panic"

\* The production began on `<` followed by `!`, on a stream that ends with its one Eof
DoctypeRan ==
    /\ WellFormed(ptokens)
    /\ prod.first >= 0
    /\ ptokens[prod.first + 1].token_type = "LeftAngle"
    /\ ptokens[prod.first + 2].token_type = "Bang"

\* C36: the production that begins on `<` `!` requires a Text token next and
\* fails with ExpectedTokenType(found, Text) on any other token, the cursor
\* left on it; with the Text token there and a `>` after it, it returns the
\* HTMLDoctype whose text is the lexemes of the tokens strictly between that
\* Text token and the first `>` after it, joined by single spaces, and leaves
\* the cursor just past that `>`: the Text token itself is not in the node.
C36_DoctypeProduction ==
    DoctypeRan =>
        LET kw == prod.first + 3
            close == FirstAfter(ptokens, kw, "RightAngle")
        IN  /\ ~prod.early
            /\ ptokens[kw].token_type # "Text" =>
                  /\ ~prod.res.ok
                  /\ prod.res.err = ExpectedTokenType(ptokens[kw], "Text")
                  /\ prod.res.cur = kw - 1
            /\ ptokens[kw].token_type = "Text" /\ close # 0 =>
                  /\ prod.res.ok
                  /\ prod.res.val = [kind |-> "HTMLDoctype",
                                     doctype |-> SpaceJoined(SubSeq(ptokens, kw + 1, close - 1))]
                  /\ prod.res.cur = close

\* C36 witness: the doctype production skipped its keyword and returned the
\* text of the three tokens before the `>`
C36_Witness ==
    /\ DoctypeRan
    /\ prod.res.ok
    /\ prod.res.val = [kind |-> "HTMLDoctype", doctype |-> <<"b", SP, "=", SP, "a">>]

\* C36 witness of the failure: the token after `<` `!` was not a Text token
C36_WitnessNoKeyword ==
    /\ DoctypeRan
    /\ ~prod.res.ok
    /\ prod.res.err.kind = "ExpectedTokenType"
    /\ prod.res.err.expected = "Text"
    /\ prod.res.err.found.token_type = "RightAngle"

\* The token at cursor i is a Text token that no construct begun before it took
TopLevelText(i) ==
    /\ ptokens[i + 1].token_type = "Text"
    /\ \A k \in 1..Len(spans) : ~(spans[k].first < i /\ i < spans[k].taken)

\* C37 (as claimed): once parse has returned Ok, every Text token at top
\* level is the first token of exactly one root node, the Text node of its
\* lexeme, and the root nodes stand in the order of their first tokens.
C37_TextTokenIsOneNode ==
    pstatus = "ok" =>
        /\ \A i \in 0..(Len(ptokens) - 1) :
              TopLevelText(i) =>
                  /\ Cardinality({k \in 1..Len(spans) : spans[k].first = i}) = 1
                  /\ \A k \in 1..Len(spans) :
                        spans[k].first = i =>
                            ast[k] = [kind |-> "Text", content |-> ptokens[i + 1].lexeme]
        /\ \A k \in 1..(Len(spans) - 1) : spans[k].first < spans[k + 1].first

\* C37 where no construct stands in the stream: the same, for a stream of
\* Text tokens that ends with its one Eof
C37_TextOnlyStreams ==
    WellFormed(ptokens) /\ (\A i \in 1..(Len(ptokens) - 1) : ptokens[i].token_type = "Text")
        => C37_TextTokenIsOneNode

\* C38 (as claimed): a peek of the lexer, at any cursor and offset, returns a
\* character and never fails: the NUL character for an index before the source
\* or at or after its end, and for an index inside the source the character
\* that begins at that index.
C38_PeeksNeverFail ==
    built.ctor = "peek_at" =>
        LET index == built.current + built.offset
            i == CharIndexAt(built.source, index)
        IN  /\ built.result # PANIC
            /\ index < 0 \/ index >= ByteLen(built.source) => built.result = NUL
            /\ index >= 0 /\ index < ByteLen(built.source) /\ i # -1
                  => built.result = built.source[i + 1]

\* C38 on sources of one-byte characters: the same, where every character is
\* one byte
C38_PeeksOnAscii == built.ctor = "peek_at" /\ IsAscii(built.source) => C38_PeeksNeverFail

\* C39: Parser::advance with the cursor on the last token of the stream or
\* beyond it (or on an empty stream) returns AtEndOfStream and leaves the
\* cursor where it was; with the cursor before the last token it leaves the
\* cursor one further and returns the token the cursor was on.
C39_ParserAdvance ==
    built.ctor = "parser_advance" =>
        IF built.current + 1 >= Len(built.tokens)
        THEN /\ ~built.result.ok
             /\ built.result.err = AtEndOfStream
             /\ built.result.cur = built.current
        ELSE /\ built.result.ok
             /\ built.result.cur = built.current + 1
             /\ built.result.val = built.tokens[built.current + 1]

\* C39 witness: advance moved the cursor from 1 to 2 and returned the Bang
\* token it was on, the next token being of another kind
C39_Witness ==
    /\ built.ctor = "parser_advance"
    /\ built.current = 1
    /\ built.result.ok
    /\ built.result.cur = 2
    /\ built.result.val.token_type = "Bang"
    /\ built.tokens[3].token_type = "Text"

\* C39 witness of the refusal: advance on the Eof token of a stream of
\* several tokens returned AtEndOfStream
C39_WitnessAtEnd ==
    /\ built.ctor = "parser_advance"
    /\ Len(built.tokens) >= 3
    /\ built.current = Len(built.tokens) - 1
    /\ built.tokens[Len(built.tokens)].token_type = "Eof"
    /\ ~built.result.ok

\* C40: Lexer::advance(chars, lines) with the cursor before the end of the
\* source returns Ok, sets start to the cursor it found, adds chars to the
\* cursor and lines to the line counter; with the cursor at or past the end
\* it returns AtEndOfSource and leaves start, cursor and line as they were.
C40_LexerAdvance ==
    built.ctor = "lexer_advance" =>
        IF built.current < ByteLen(built.source)
        THEN /\ built.result.ok
             /\ built.result.start = built.current
             /\ built.result.current = built.current + built.chars
             /\ built.result.line = built.line + built.lines
        ELSE /\ ~built.result.ok
             /\ built.result.err.kind = "AtEndOfSource"
             /\ built.result.start = built.start
             /\ built.result.current = built.current
             /\ built.result.line = built.line

\* C40 witness: advance(2, 1) from cursor 2 with start 0 on line 1 left
\* start 2, cursor 4 and line 2
C40_Witness ==
    /\ built.ctor = "lexer_advance"
    /\ built.start = 0 /\ built.current = 2 /\ built.line = 1
    /\ built.chars = 2 /\ built.lines = 1
    /\ built.result.ok
    /\ built.result.start = 2 /\ built.result.current = 4 /\ built.result.line = 2

\* C40 witness of the refusal: advance at the end of a source of four
\* characters returned AtEndOfSource
C40_WitnessAtEnd ==
    /\ built.ctor = "lexer_advance"
    /\ built.source = <<"a", "b", LF, "c">>
    /\ built.start = 2 /\ built.current = 4 /\ built.chars = 1
    /\ ~built.result.ok

====
